---- MODULE Spec2Model ----
(***************************************************************************)
(* RichErrors: the thread-scoped integer-code registry (Err2Code.c), the   *)
(* error object (RichErrors.c) and the helpers they are built on.          *)
(*                                                                         *)
(* Pointers into an array are modelled as 0-based offsets (element i of    *)
(* the C array is arr[i + 1] of the TLA+ sequence); the null pointer of a  *)
(* search result is NullPos.                                               *)
(***************************************************************************)
EXTENDS Integers, Sequences, FiniteSets, TLC

VARIABLES
    map,        \* struct RERR_ErrorMap (Err2Code.c), or its state after Destroy
    last,       \* the call that was made last and what it returned
    ledger,     \* per caller-made error: what the registry did with it
    expected,   \* history: the (thread, code, error) registrations the
                \* callers have been told about and have not taken back
    cfgIn,      \* the arguments of a call of RERR_ErrorMap_Create
    cfgOut,     \* what that call returned
    mem,        \* the heap: struct RERR_Error and struct RERR_InfoMap objects
    domains,    \* the static array of registered domains (RichErrors.c)
    held,       \* history: how many references to each object the caller owns
    elast,      \* the last call on errors or info maps and what it returned
    args,       \* the domain name and the message the caller passes
    array,      \* a struct RERR_DynArray (DynArray.c) and its storage
    fcall,      \* a call of RERR_Error_FormatCode: its arguments and the
                \* text it left in the destination
    regCall,    \* the mutex of the registry and, per thread, where its
                \* call of RERR_ErrorMap_RegisterThreadLocal stands
    domCall,    \* the owner of domainsLock and, per thread, where its
                \* call of RERR_Domain_Register stands
    rcCall,     \* per thread, where its RERR_Error_Copy or
                \* RERR_Error_Destroy stands and what it read
    search      \* a sorted array of int, and the last search in it with
                \* what it returned

regVars == <<map, last, ledger, expected>>

cfgVars == <<cfgIn, cfgOut>>

errVars == <<mem, domains, held, elast, args>>

arrVars == <<array>>

fmtVars == <<fcall>>

prbVars == <<regCall>>

dcVars == <<domCall>>

rcVars == <<rcCall>>

srVars == <<search>>

vars ==
    <<map, last, ledger, expected, cfgIn, cfgOut,
      mem, domains, held, elast, args, array, fcall, regCall, domCall,
      rcCall, search>>

-----------------------------------------------------------------------------
(* Bounds of the model *)

NumThreads == 2
MaxErrors == 2
MaxCode == 2
HeapSize == 2
MaxShared == 1

\* How often the registry lock may be left held
MaxLeaked == 1

\* How many calls of RegisterThreadLocal are followed step by step
MaxCalls == 3

-----------------------------------------------------------------------------
(* Program constants *)

INT32_MAX == 2147483647
INT32_MIN == -INT32_MAX - 1

RERR_ECODE_NULL_ARGUMENT == 101
RERR_ECODE_MAP_INVALID_CONFIG == 301
RERR_ECODE_MAP_INVALID_CODE == 302
RERR_ECODE_MAP_FAILURE == 303

FixedThresh == 16
LinThreshBits == 6
ShrinkHysteresis == 32

NullPos == -1

NullPtr == 0
OomPtr == -1
MAX_DOMAIN_LENGTH == 63

\* sizeof(struct RERR_InfoMapItem) and sizeof(RERR_DomainPtr), LP64
ItemSize == 24

PointerSize == 8
RERR_ECODE_DOMAIN_NAME_EMPTY == 201
RERR_ECODE_DOMAIN_NAME_TOO_LONG == 202
RERR_ECODE_DOMAIN_NAME_INVALID == 203
RERR_ECODE_DOMAIN_ALREADY_EXISTS == 204
RERR_ECODE_DOMAIN_NOT_REGISTERED == 205
RERR_ECODE_CODEFORMAT_INVALID == 401
RERR_ECODE_OUT_OF_MEMORY == -1
RERR_CodeFormat_I32 == 1
RERR_CodeFormat_U32 == 2
RERR_CodeFormat_Hex32 == 4
RERR_CodeFormat_I16 == 8
RERR_CodeFormat_U16 == 16
RERR_CodeFormat_Hex16 == 32

\* The flag that CodeFormat_Check masks out; the enumeration of this version
\* of RichErrors.h does not list it.  It is a bit of its own.
RERR_CodeFormat_HexNoPad == 64

UnmappedCode == 42

-----------------------------------------------------------------------------
(* Error values as seen by the registry (RERR_ErrorPtr) *)

RERR_NO_ERROR == [kind |-> "NoError", id |-> 0]

RERR_OUT_OF_MEMORY == [kind |-> "OutOfMemory", id |-> 0]

\* An error object made by a caller; id is its identity (its address).
CallerError(n) == [kind |-> "Error", id |-> n]

RERR_Error_IsOutOfMemory(error) == error = RERR_OUT_OF_MEMORY

RERR_Error_CreateOutOfMemory == RERR_OUT_OF_MEMORY

\* RERR_Error_CreateWithCode(RERR_DOMAIN_RICHERRORS, code, msg): a new error
\* of the built-in domain, or the out-of-memory value when allocation fails.
CreateLibraryError(code, allocOK) ==
    IF allocOK THEN [kind |-> "RichErrors", id |-> code] ELSE RERR_OUT_OF_MEMORY

-----------------------------------------------------------------------------
(* DynArray.h helpers, on arrays of struct MappedError *)

RECURSIVE Pow2Loop(_, _)
Pow2Loop(size, ret) ==
    IF size \div 2 = 0 THEN ret ELSE Pow2Loop(size \div 2, ret * 2)

RECURSIVE Pow2(_)
Pow2(n) == IF n = 0 THEN 1 ELSE 2 * Pow2(n - 1)

DynArray_CapacityForSize(size, fixedThresh, linThreshBits) ==
    IF size = 0 THEN 0
    ELSE IF size <= fixedThresh THEN fixedThresh
    ELSE IF size >= Pow2(linThreshBits)
         THEN (((size - 1) \div Pow2(linThreshBits)) + 1) * Pow2(linThreshBits)
    ELSE Pow2Loop(size - 1, 2)

MappedError_Compare(lhs, rhs) ==
    IF lhs.thread < rhs.thread THEN -1
    ELSE IF lhs.thread > rhs.thread THEN 1
    ELSE IF lhs.code < rhs.code THEN -1
    ELSE IF lhs.code > rhs.code THEN 1
    ELSE 0

RECURSIVE BSearchLoop(_, _, _, _, _)
BSearchLoop(arr, key, left, right, exact) ==
    IF left = right THEN (IF exact THEN NullPos ELSE left)
    ELSE LET count == right - left
             middle == left + count \div 2
             cmp == MappedError_Compare(arr[middle + 1], key)
         IN  IF cmp = 0 THEN middle
             ELSE IF cmp > 0 THEN BSearchLoop(arr, key, left, middle, exact)
             ELSE IF left = middle THEN (IF exact THEN NullPos ELSE right)
             ELSE BSearchLoop(arr, key, middle, right, exact)

DynArray_BSearch(arr, key, exact) == BSearchLoop(arr, key, 0, Len(arr), exact)

DynArray_BSearchInsertionPoint(arr, key) == DynArray_BSearch(arr, key, FALSE)

DynArray_BSearchExact(arr, key) == DynArray_BSearch(arr, key, TRUE)

\* The array after memmove(i, i + 1, end - (i + 1)) and --*arrSize.
DynArray_EraseElem(arr, it) ==
    IF it = Len(arr) THEN SubSeq(arr, 1, Len(arr) - 1)
    ELSE SubSeq(arr, 1, it) \o SubSeq(arr, it + 2, Len(arr))

\* An insertion that puts the element behind the last one
InsertElem_AtEnd(arr, it, elem) == Append(arr, elem)

\* The array after ++*arrSize and memmove(i + 1, i, end - i); the slot at
\* `it` is then written by the caller with `elem`.
DynArray_InsertElem(arr, it, elem) ==
    SubSeq(arr, 1, it) \o <<elem>> \o SubSeq(arr, it + 1, Len(arr))

-----------------------------------------------------------------------------
(* Err2Code.c: the error map *)

ErrorMap_Find(m, thread, code) ==
    DynArray_BSearchExact(m.mappings,
        [thread |-> thread, code |-> code, error |-> RERR_NO_ERROR])

ErrorMap_CapacityForSize(size) ==
    DynArray_CapacityForSize(size, FixedThresh, LinThreshBits)

\* allocOK: whether malloc / realloc succeeds when it is called.
ErrorMap_EnsureCapacity(m, allocOK) ==
    LET newSize == Len(m.mappings) + 1
        newCapacity == ErrorMap_CapacityForSize(newSize)
    IN  IF m.mapCapacity >= newSize THEN [err |-> RERR_NO_ERROR, map |-> m]
        ELSE IF ~allocOK THEN [err |-> RERR_Error_CreateOutOfMemory, map |-> m]
        ELSE [err |-> RERR_NO_ERROR,
              map |-> [m EXCEPT !.mapCapacity = newCapacity]]

ErrorMap_ShrinkCapacity(m, allocOK) ==
    LET newCapacity == ErrorMap_CapacityForSize(Len(m.mappings))
    IN  IF m.mapCapacity <= newCapacity + ShrinkHysteresis THEN m
        ELSE IF newCapacity # 0 /\ ~allocOK THEN m
        ELSE [m EXCEPT !.mapCapacity = newCapacity]

\* ErrorMap_Insert that inserts whether or not the storage could grow
Insert_IgnoresFailure(m, thread, code, error, allocOK) ==
    LET key == [thread |-> thread, code |-> code, error |-> RERR_NO_ERROR]
        ins == DynArray_BSearchInsertionPoint(m.mappings, key)
        elem == [thread |-> thread, code |-> code, error |-> error]
    IN  [err |-> RERR_NO_ERROR,
         map |-> [m EXCEPT !.mappings = DynArray_InsertElem(@, ins, elem)]]

ErrorMap_Insert(m, thread, code, error, allocOK) ==
    LET ens == ErrorMap_EnsureCapacity(m, allocOK)
        key == [thread |-> thread, code |-> code, error |-> RERR_NO_ERROR]
        ins == DynArray_BSearchInsertionPoint(ens.map.mappings, key)
        elem == [thread |-> thread, code |-> code, error |-> error]
    IN  IF ens.err # RERR_NO_ERROR THEN ens
        ELSE [err |-> RERR_NO_ERROR,
              map |-> [ens.map EXCEPT
                         !.mappings = DynArray_InsertElem(@, ins, elem)]]

\* The element handed to DynArray_EraseElem is map->mappings, the first one.
ErrorMap_Erase(m, item, allocOK) ==
    ErrorMap_ShrinkCapacity(
        [m EXCEPT !.mappings = DynArray_EraseElem(@, 0)], allocOK)

\* IncrementCode that does not go back to minCode after maxCode
IncrementCode_PastMax(code, minCode, maxCode) ==
    IF code = INT32_MAX THEN INT32_MIN ELSE code + 1

IncrementCode(code, minCode, maxCode) ==
    IF code = maxCode THEN minCode
    ELSE IF code = INT32_MAX THEN INT32_MIN
    ELSE code + 1

\* CodeIsInRange that takes every range for a continuous one
CodeIsInRange_ContinuousOnly(code, minCode, maxCode) ==
    minCode <= code /\ code <= maxCode

CodeIsInRange(code, minCode, maxCode) ==
    LET continuousRange == minCode <= maxCode
    IN  \/ continuousRange /\ minCode <= code /\ code <= maxCode
        \/ ~continuousRange /\ (minCode <= code \/ code <= maxCode)

\* config: the five codes of RERR_ErrorMapConfig; config.null tells a null
\* pointer given for it.
CheckConfig(config, allocOK) ==
    IF config.null
    THEN CreateLibraryError(RERR_ECODE_NULL_ARGUMENT, allocOK)
    ELSE IF CodeIsInRange(config.noErrorCode,
                          config.minMappedCode, config.maxMappedCode)
    THEN CreateLibraryError(RERR_ECODE_MAP_INVALID_CONFIG, allocOK)
    ELSE IF CodeIsInRange(config.outOfMemoryCode,
                          config.minMappedCode, config.maxMappedCode)
    THEN CreateLibraryError(RERR_ECODE_MAP_INVALID_CONFIG, allocOK)
    ELSE IF CodeIsInRange(config.mapFailureCode,
                          config.minMappedCode, config.maxMappedCode)
    THEN CreateLibraryError(RERR_ECODE_MAP_INVALID_CONFIG, allocOK)
    ELSE IF config.outOfMemoryCode = config.noErrorCode
    THEN CreateLibraryError(RERR_ECODE_MAP_INVALID_CONFIG, allocOK)
    ELSE IF config.mapFailureCode = config.noErrorCode
    THEN CreateLibraryError(RERR_ECODE_MAP_INVALID_CONFIG, allocOK)
    ELSE RERR_NO_ERROR

\* *map = NULL: no map.
NullMap ==
    [alive |-> FALSE, minCode |-> 0, maxCode |-> 0, noErrorCode |-> 0,
     oomCode |-> 0, failCode |-> 0, nextCode |-> 0, mappings |-> << >>,
     mapCapacity |-> 0]

\* hasMap: the address given for the map pointer is not null; errOK: the
\* allocation of an error object for the result succeeds; mapOK: the calloc
\* of the map succeeds.
RERR_ErrorMap_Create(hasMap, config, errOK, mapOK) ==
    LET err == CheckConfig(config, errOK)
    IN  IF ~hasMap
        THEN [err |-> CreateLibraryError(RERR_ECODE_NULL_ARGUMENT, errOK),
              map |-> NullMap]
        ELSE IF err # RERR_NO_ERROR THEN [err |-> err, map |-> NullMap]
        ELSE IF ~mapOK
        THEN [err |-> RERR_Error_CreateOutOfMemory, map |-> NullMap]
        ELSE [err |-> RERR_NO_ERROR,
              map |-> [alive |-> TRUE,
                       minCode |-> config.minMappedCode,
                       maxCode |-> config.maxMappedCode,
                       noErrorCode |-> config.noErrorCode,
                       oomCode |-> config.outOfMemoryCode,
                       failCode |-> config.mapFailureCode,
                       nextCode |-> config.minMappedCode,
                       mappings |-> << >>,
                       mapCapacity |-> 0]]

\* The errors RERR_ErrorMap_Destroy passes to RERR_Error_Destroy, in order.
RERR_ErrorMap_Destroy(m) ==
    [i \in 1..Len(m.mappings) |-> m.mappings[i].error]

\* A probe that takes the first candidate whether or not it is in use
RegisterProbe_TakesCandidate(m, thread, code, firstCandidate) ==
    [available |-> TRUE, code |-> code]

\* The probe loop of RegisterThreadLocal: the first code, from `code` on,
\* that ErrorMap_Find does not find for the thread; "exhausted" when the
\* probe comes back to firstCandidate.
RECURSIVE RegisterProbe(_, _, _, _)
RegisterProbe(m, thread, code, firstCandidate) ==
    IF ErrorMap_Find(m, thread, code) = NullPos
    THEN [available |-> TRUE, code |-> code]
    ELSE LET next == IncrementCode(code, m.minCode, m.maxCode)
         IN  IF next = firstCandidate
             THEN [available |-> FALSE, code |-> code]
             ELSE RegisterProbe(m, thread, next, firstCandidate)

\* RegisterThreadLocal that moves the cursor on only when it registers
RegisterThreadLocal_AdvancesOnSuccess(m, thread, error, allocOK) ==
    IF error = RERR_NO_ERROR
    THEN [map |-> m, ret |-> m.noErrorCode, inserted |-> FALSE,
          destroyed |-> << >>]
    ELSE IF RERR_Error_IsOutOfMemory(error)
    THEN [map |-> m, ret |-> m.oomCode, inserted |-> FALSE,
          destroyed |-> << >>]
    ELSE
    LET firstCandidate == m.nextCode
        m1 == [m EXCEPT !.nextCode = IncrementCode(@, m.minCode, m.maxCode)]
        probe == RegisterProbe(m1, thread, firstCandidate, firstCandidate)
        ins == ErrorMap_Insert(m1, thread, probe.code, error, allocOK)
    IN  IF ~probe.available
        THEN [map |-> m, ret |-> m.failCode, inserted |-> FALSE,
              destroyed |-> <<error>>]
        ELSE IF ins.err = RERR_NO_ERROR
        THEN [map |-> ins.map, ret |-> probe.code, inserted |-> TRUE,
              destroyed |-> << >>]
        ELSE [map |-> m,
              ret |-> IF RERR_Error_IsOutOfMemory(ins.err)
                      THEN m.oomCode ELSE m.failCode,
              inserted |-> FALSE, destroyed |-> <<error>>]

\* Returns the map afterwards, the code returned, whether the error was
\* inserted, and the errors passed to RERR_Error_Destroy.
RERR_ErrorMap_RegisterThreadLocal(m, thread, error, allocOK) ==
    IF error = RERR_NO_ERROR
    THEN [map |-> m, ret |-> m.noErrorCode, inserted |-> FALSE,
          destroyed |-> << >>]
    ELSE IF RERR_Error_IsOutOfMemory(error)
    THEN [map |-> m, ret |-> m.oomCode, inserted |-> FALSE,
          destroyed |-> << >>]
    ELSE
    LET firstCandidate == m.nextCode
        m1 == [m EXCEPT !.nextCode = IncrementCode(@, m.minCode, m.maxCode)]
        probe == RegisterProbe(m1, thread, firstCandidate, firstCandidate)
        ins == ErrorMap_Insert(m1, thread, probe.code, error, allocOK)
    IN  IF ~probe.available
        THEN [map |-> m1, ret |-> m.failCode, inserted |-> FALSE,
              destroyed |-> <<error>>]
        ELSE IF ins.err = RERR_NO_ERROR
        THEN [map |-> ins.map, ret |-> probe.code, inserted |-> TRUE,
              destroyed |-> << >>]
        ELSE [map |-> ins.map,
              ret |-> IF RERR_Error_IsOutOfMemory(ins.err)
                      THEN m.oomCode ELSE m.failCode,
              inserted |-> FALSE, destroyed |-> <<error>>]

\* IsRegisteredThreadLocal that looks the three special codes up in the table
IsRegistered_TableOnly(m, thread, code) ==
    ErrorMap_Find(m, thread, code) # NullPos

RERR_ErrorMap_IsRegisteredThreadLocal(m, thread, code) ==
    IF code = m.noErrorCode \/ code = m.oomCode \/ code = m.failCode
    THEN TRUE
    ELSE ErrorMap_Find(m, thread, code) # NullPos

\* Returns the map afterwards and the error returned.
RERR_ErrorMap_RetrieveThreadLocal(m, thread, mappedCode, allocOK) ==
    IF mappedCode = m.noErrorCode THEN [map |-> m, ret |-> RERR_NO_ERROR]
    ELSE IF mappedCode = m.oomCode
    THEN [map |-> m, ret |-> RERR_Error_CreateOutOfMemory]
    ELSE IF mappedCode = m.failCode
    THEN [map |-> m, ret |-> CreateLibraryError(RERR_ECODE_MAP_FAILURE, allocOK)]
    ELSE
    LET found == ErrorMap_Find(m, thread, mappedCode)
    IN  IF found # NullPos
        THEN [map |-> ErrorMap_Erase(m, found, allocOK),
              ret |-> m.mappings[found + 1].error]
        ELSE [map |-> m,
              ret |-> CreateLibraryError(RERR_ECODE_MAP_INVALID_CODE, allocOK)]

\* The loop of ClearThreadLocal over i = begin .. end - 1 with the write
\* cursor j; arr is the storage, destroyed the errors given to
\* RERR_Error_Destroy so far.
RECURSIVE ClearLoop(_, _, _, _, _)
ClearLoop(arr, i, j, thisThread, destroyed) ==
    IF i >= Len(arr) THEN [arr |-> arr, j |-> j, destroyed |-> destroyed]
    ELSE IF arr[i + 1].thread = thisThread
    THEN ClearLoop(arr, i + 1, j, thisThread,
                   Append(destroyed, arr[i + 1].error))
    ELSE IF j < i
    THEN ClearLoop([arr EXCEPT ![j + 1] = arr[i + 1]], i + 1, j, thisThread,
                   destroyed)
    ELSE ClearLoop(arr, i + 1, j, thisThread, destroyed)

\* Returns the map afterwards and the errors passed to RERR_Error_Destroy.
RERR_ErrorMap_ClearThreadLocal(m, thisThread, allocOK) ==
    LET loop == ClearLoop(m.mappings, 0, 0, thisThread, << >>)
        m1 == [m EXCEPT !.mappings = SubSeq(loop.arr, 1, loop.j)]
    IN  [map |-> ErrorMap_ShrinkCapacity(m1, allocOK),
         destroyed |-> loop.destroyed]

-----------------------------------------------------------------------------
(* RichErrors.c and InfoMap.c: error objects and info maps on the heap.
   A pointer is the index of an object, NullPtr, or OomPtr. *)

NullStr == [null |-> TRUE, chars |-> << >>]

Str(chars) == [null |-> FALSE, chars |-> chars]

\* "RichErrorsCritical"
RERR_DOMAIN_CRITICAL ==
    <<82, 105, 99, 104, 69, 114, 114, 111, 114, 115,
      67, 114, 105, 116, 105, 99, 97, 108>>

\* "RichErrors"
RERR_DOMAIN_RICHERRORS == <<82, 105, 99, 104, 69, 114, 114, 111, 114, 115>>

\* "Null error domain"
MsgNullDomain ==
    <<78, 117, 108, 108, 32, 101, 114, 114, 111, 114, 32,
      100, 111, 109, 97, 105, 110>>

\* "Empty error domain name"
MsgEmptyDomain ==
    <<69, 109, 112, 116, 121, 32, 101, 114, 114, 111, 114, 32,
      100, 111, 109, 97, 105, 110, 32, 110, 97, 109, 101>>

\* "Error domain name exceeding 63 characters: "
MsgTooLong ==
    <<69, 114, 114, 111, 114, 32, 100, 111, 109, 97, 105, 110, 32,
      110, 97, 109, 101, 32, 101, 120, 99, 101, 101, 100, 105, 110, 103, 32,
      54, 51, 32, 99, 104, 97, 114, 97, 99, 116, 101, 114, 115, 58, 32>>

\* "..."
MsgEllipsis == <<46, 46, 46>>

\* "Error domain containing disallowed characters"
MsgInvalidDomain ==
    <<69, 114, 114, 111, 114, 32, 100, 111, 109, 97, 105, 110, 32,
      99, 111, 110, 116, 97, 105, 110, 105, 110, 103, 32,
      100, 105, 115, 97, 108, 108, 111, 119, 101, 100, 32,
      99, 104, 97, 114, 97, 99, 116, 101, 114, 115>>

\* "Error domain not registered: "
MsgNotRegistered ==
    <<69, 114, 114, 111, 114, 32, 100, 111, 109, 97, 105, 110, 32,
      110, 111, 116, 32, 114, 101, 103, 105, 115, 116, 101, 114, 101, 100,
      58, 32>>

NullDomain == [null |-> TRUE, name |-> << >>, codeFormat |-> 0]

Domain(name, codeFormat) ==
    [null |-> FALSE, name |-> name, codeFormat |-> codeFormat]

RichErrorsCriticalDomain == Domain(RERR_DOMAIN_CRITICAL, RERR_CodeFormat_I32)

RichErrorsDomain == Domain(RERR_DOMAIN_RICHERRORS, RERR_CodeFormat_I32)

\* struct RERR_Error; state is "unused" before calloc and "freed" after free.
FreshError ==
    [state |-> "unused", domain |-> NullDomain, code |-> 0,
     message |-> NullStr, cause |-> NullPtr, info |-> NullPtr, refCount |-> 0]

\* struct RERR_InfoMap; the flags are kept as one field each (immutable,
\* oom, mutated: attempt to mutate immutable, nullKey, nullValue).
FreshInfo ==
    [state |-> "unused", immutable |-> FALSE, oom |-> FALSE,
     mutated |-> FALSE, nullKey |-> FALSE, nullValue |-> FALSE,
     items |-> << >>, capacity |-> 0, refCount |-> 0]

ErrorPtrs == 1..HeapSize

InfoPtrs == 1..HeapSize

\* fault: the process has made an invalid memory access and has stopped.
EmptyMem ==
    [errors |-> [p \in ErrorPtrs |-> FreshError],
     infos |-> [p \in InfoPtrs |-> FreshInfo],
     fault |-> FALSE]

Fault(m) == [EmptyMem EXCEPT !.fault = TRUE]

IsObject(p) == p # NullPtr /\ p # OomPtr

\* The address calloc returns: that of the first block never handed out.
NewError(m) ==
    CHOOSE p \in ErrorPtrs :
        /\ m.errors[p].state = "unused"
        /\ \A q \in ErrorPtrs : m.errors[q].state = "unused" => p <= q

NewInfo(m) ==
    CHOOSE p \in InfoPtrs :
        /\ m.infos[p].state = "unused"
        /\ \A q \in InfoPtrs : m.infos[q].state = "unused" => p <= q

\* strcmp on strings given as sequences of bytes
StrCmp(a, b) ==
    LET n == IF Len(a) < Len(b) THEN Len(a) ELSE Len(b)
        diff == {i \in 1..n : a[i] # b[i]}
        first == CHOOSE i \in diff : \A k \in diff : i <= k
    IN  IF diff # {} THEN (IF a[first] < b[first] THEN -1 ELSE 1)
        ELSE IF Len(a) < Len(b) THEN -1
        ELSE IF Len(a) > Len(b) THEN 1
        ELSE 0

Domain_Compare(elem, key) == StrCmp(elem.name, key)

RECURSIVE RERR_BSearchLoop(_, _, _, _, _)
RERR_BSearchLoop(arr, key, left, right, exact) ==
    IF left = right THEN (IF exact THEN NullPos ELSE left)
    ELSE LET count == right - left
             middle == left + count \div 2
             cmp == Domain_Compare(arr[middle + 1], key)
         IN  IF cmp = 0 THEN middle
             ELSE IF cmp > 0 THEN RERR_BSearchLoop(arr, key, left, middle, exact)
             ELSE IF left = middle THEN (IF exact THEN NullPos ELSE right)
             ELSE RERR_BSearchLoop(arr, key, middle, right, exact)

RERR_DynArray_BSearch(arr, key) == RERR_BSearchLoop(arr, key, 0, Len(arr), TRUE)

\* doms: the static `domains` array, [alloc |-> it is non-null, elems |-> ..]
\* A variant of Domain_Find for which every name is that of a domain
Domain_Find_Any(doms, domainName) ==
    [null |-> FALSE, name |-> domainName, codeFormat |-> RERR_CodeFormat_I32]

Domain_Find(doms, domainName) ==
    IF StrCmp(domainName, RERR_DOMAIN_CRITICAL) = 0
    THEN RichErrorsCriticalDomain
    ELSE IF StrCmp(domainName, RERR_DOMAIN_RICHERRORS) = 0
    THEN RichErrorsDomain
    ELSE LET found == IF doms.alloc
                      THEN RERR_DynArray_BSearch(doms.elems, domainName)
                      ELSE NullPos
         IN  IF found # NullPos THEN doms.elems[found + 1] ELSE NullDomain

\* al says which allocations succeed when they are made: al.structOK the
\* calloc of the struct, al.msgOK the malloc of the message copy.  A block
\* that is freed again before the call returns leaves no trace.  The result
\* is the memory after the call and the pointer returned.
RERR_Error_Create(m, message, al) ==
    IF ~al.structOK THEN [mem |-> m, ret |-> OomPtr]
    ELSE IF ~message.null /\ ~al.msgOK THEN [mem |-> m, ret |-> OomPtr]
    ELSE LET p == NewError(m)
         IN  [mem |-> [m EXCEPT !.errors[p] =
                          [FreshError EXCEPT !.state = "live",
                                             !.message = message,
                                             !.refCount = 1]],
              ret |-> p]

RECURSIVE RERR_Error_CreateWithCode(_, _, _, _, _, _)

\* A variant of Domain_Check that rejects the empty name only
Domain_Check_EmptyOnly(m, doms, domainName, al) ==
    IF domainName = << >>
    THEN RERR_Error_CreateWithCode(m, doms, Str(RERR_DOMAIN_RICHERRORS),
             RERR_ECODE_DOMAIN_NAME_EMPTY, Str(MsgEmptyDomain), al)
    ELSE [mem |-> m, ret |-> NullPtr]

\* Precondition: domainName is not null; it is given as its bytes.
Domain_Check(m, doms, domainName, al) ==
    IF domainName = << >>
    THEN RERR_Error_CreateWithCode(m, doms, Str(RERR_DOMAIN_RICHERRORS),
             RERR_ECODE_DOMAIN_NAME_EMPTY, Str(MsgEmptyDomain), al)
    ELSE IF Len(domainName) > MAX_DOMAIN_LENGTH
    THEN RERR_Error_CreateWithCode(m, doms, Str(RERR_DOMAIN_RICHERRORS),
             RERR_ECODE_DOMAIN_NAME_TOO_LONG,
             Str(MsgTooLong \o SubSeq(domainName, 1, MAX_DOMAIN_LENGTH)
                     \o MsgEllipsis),
             al)
    ELSE IF \E i \in 1..Len(domainName) :
                domainName[i] < 32 \/ domainName[i] > 126
    THEN RERR_Error_CreateWithCode(m, doms, Str(RERR_DOMAIN_RICHERRORS),
             RERR_ECODE_DOMAIN_NAME_INVALID, Str(MsgInvalidDomain),
             al)
    ELSE [mem |-> m, ret |-> NullPtr]

RERR_Error_CreateWithCode(m, doms, domainName, code, message, al) ==
    IF domainName.null
    THEN IF code = 0 THEN RERR_Error_Create(m, message, al)
         ELSE RERR_Error_CreateWithCode(m, doms, Str(RERR_DOMAIN_RICHERRORS),
                  RERR_ECODE_NULL_ARGUMENT, Str(MsgNullDomain), al)
    ELSE LET err == Domain_Check(m, doms, domainName.chars, al)
             d == Domain_Find(doms, domainName.chars)
             r == RERR_Error_Create(m, message, al)
         IN  IF err.ret # NullPtr THEN err
             ELSE IF d.null
             THEN RERR_Error_CreateWithCode(m, doms,
                      Str(RERR_DOMAIN_RICHERRORS),
                      RERR_ECODE_DOMAIN_NOT_REGISTERED,
                      Str(MsgNotRegistered \o domainName.chars),
                      al)
             ELSE IF r.ret # OomPtr
             THEN [mem |-> [r.mem EXCEPT !.errors[r.ret].domain = d,
                                         !.errors[r.ret].code = code],
                   ret |-> r.ret]
             ELSE r

RECURSIVE RoundUpLoop(_, _)
RoundUpLoop(s, p) == IF p >= s THEN p ELSE RoundUpLoop(s, 2 * p)

\* The least power of two that is not less than s (s >= 1)
RoundUpToPowerOf2(s) == RoundUpLoop(s, 1)

\* The loop `while (s >>= 1) ++r`: the result is r; s is 0 when it ends.
RECURSIVE ShiftCount(_, _)
ShiftCount(s, r) == IF s \div 2 = 0 THEN r ELSE ShiftCount(s \div 2, r + 1)

\* The parameters RERR_DynArray_Create computes for an element size.  The
\* comparisons `s > 64` and `s > 4096` are made after the loop has shifted
\* s down to 0, so that their first alternatives are never taken.
RERR_DynArray_Create(elemSize) ==
    LET s == 0
        r == ShiftCount(RoundUpToPowerOf2(elemSize), 0)
    IN  [elemSize |-> elemSize,
         fixedThresh |-> IF s > 64 THEN 2 ^ r ELSE 64 \div (2 ^ r),
         linThreshBits |-> IF s > 4096 THEN 2 ^ r ELSE 4096 \div (2 ^ r),
         capHysteresis |-> IF s > 64 THEN 2 ^ r ELSE 64 \div (2 ^ r)]

\* The width of size_t
SizeBits == 64

\* x << n and x >> n on size_t, for the small x that the model shifts.  A
\* shift by SizeBits or more is undefined: arr.shift says what the build
\* makes of it, "modulo" (the count is taken modulo SizeBits, as a shift
\* instruction does) or "zero" (every bit is shifted out).
ShiftLeft(x, n, shift) ==
    IF n < SizeBits THEN x * 2 ^ n
    ELSE IF shift = "modulo" THEN x * 2 ^ (n % SizeBits)
    ELSE 0

ShiftRight(x, n, shift) ==
    IF n < SizeBits THEN x \div 2 ^ n
    ELSE IF shift = "modulo" THEN x \div 2 ^ (n % SizeBits)
    ELSE 0

\* An array of the build that evaluates an oversized shift as `shift`
Build(arr, shift) ==
    [elemSize |-> arr.elemSize, fixedThresh |-> arr.fixedThresh,
     linThreshBits |-> arr.linThreshBits,
     capHysteresis |-> arr.capHysteresis, shift |-> shift]

\* IdealCapacity; arr.shift is read for the sizes above the fixed zone only.
IdealCapacity(arr, size) ==
    IF size = 0 THEN 0
    ELSE IF size <= arr.fixedThresh THEN arr.fixedThresh
    ELSE LET linThresh == ShiftLeft(1, arr.linThreshBits, arr.shift)
             multiplier ==
                 ShiftRight(size - 1, arr.linThreshBits, arr.shift) + 1
         IN  IF size >= linThresh
             THEN ShiftLeft(multiplier, arr.linThreshBits, arr.shift)
             ELSE RoundUpToPowerOf2(size)

\* EnsureCapacity: the capacity afterwards, or NullPos when the storage has
\* to grow and allocOK says that it cannot.
EnsureCapacity(arr, capacity, size, allocOK) ==
    IF capacity >= size THEN capacity
    ELSE IF IdealCapacity(arr, size) = 0 THEN 0
    ELSE IF allocOK THEN IdealCapacity(arr, size)
    ELSE NullPos

\* MaybeShrink: the capacity afterwards (a failed shrink keeps the storage).
MaybeShrink(arr, capacity, size, allocOK) ==
    LET idealCap == IdealCapacity(arr, size + arr.capHysteresis)
    IN  IF capacity > idealCap /\ (idealCap = 0 \/ allocOK) THEN idealCap
        ELSE capacity

\* The array of struct RERR_InfoMapItem of an info map
ItemArray == RERR_DynArray_Create(ItemSize)

\* The array of RERR_DomainPtr of the domain registry
DomainArray == RERR_DynArray_Create(PointerSize)

\* The content of an element that RERR_DynArray_Insert has made room for
\* and that has not been written yet
Hole == [key |-> << >>, type |-> "Invalid", value |-> 0]

\* "Invalid error code format"
MsgInvalidFormat ==
    <<73, 110, 118, 97, 108, 105, 100, 32, 101, 114, 114, 111, 114, 32, 99,
      111, 100, 101, 32, 102, 111, 114, 109, 97, 116>>

\* "Cannot register already registered domain: "
MsgAlreadyRegistered ==
    <<67, 97, 110, 110, 111, 116, 32, 114, 101, 103, 105, 115, 116, 101,
      114, 32, 97, 108, 114, 101, 97, 100, 121, 32, 114, 101, 103, 105,
      115, 116, 101, 114, 101, 100, 32, 100, 111, 109, 97, 105, 110, 58,
      32>>

\* format & ~flag, for a flag that is a single bit
BitClear(format, flag) ==
    IF (format \div flag) % 2 = 1 THEN format - flag ELSE format

\* The case labels of CodeFormat_Check
ValidCodeFormats ==
    {RERR_CodeFormat_I32, RERR_CodeFormat_U32, RERR_CodeFormat_Hex32,
     RERR_CodeFormat_I32 + RERR_CodeFormat_Hex32,
     RERR_CodeFormat_U32 + RERR_CodeFormat_Hex32,
     RERR_CodeFormat_I16, RERR_CodeFormat_U16, RERR_CodeFormat_Hex16,
     RERR_CodeFormat_I16 + RERR_CodeFormat_Hex16,
     RERR_CodeFormat_U16 + RERR_CodeFormat_Hex16}

CodeFormat_Check(m, doms, format, al) ==
    IF BitClear(format, RERR_CodeFormat_HexNoPad) \in ValidCodeFormats
    THEN [mem |-> m, ret |-> NullPtr]
    ELSE RERR_Error_CreateWithCode(m, doms, Str(RERR_DOMAIN_RICHERRORS),
             RERR_ECODE_CODEFORMAT_INVALID, Str(MsgInvalidFormat), al)

\* al.domainOK: the malloc of the name copy and the calloc of the struct
\* both succeed.  The result is the domain, or NullDomain for NULL.
Domain_Create(name, codeFormat, al) ==
    IF ~al.domainOK THEN NullDomain ELSE Domain(name, codeFormat)

\* The static array `domains` and the lock that guards it: alloc says that
\* the array exists (domains != NULL), lock counts how often the recursive
\* mutex is held.
NoDomains == [alloc |-> FALSE, elems |-> << >>, capacity |-> 0, lock |-> 0]

\* al.arrayOK is the calloc of RERR_DynArray_Create, al.itemsOK the growth
\* of the element storage.
Domain_Insert(doms, domain, al) ==
    IF ~doms.alloc /\ ~al.arrayOK THEN [doms |-> doms, ret |-> OomPtr]
    ELSE LET d0 == [doms EXCEPT !.alloc = TRUE]
             it == RERR_BSearchLoop(d0.elems, domain.name, 0, Len(d0.elems),
                                    FALSE)
             cap == EnsureCapacity(DomainArray, d0.capacity,
                                   Len(d0.elems) + 1, al.itemsOK)
         IN  IF cap = NullPos THEN [doms |-> d0, ret |-> OomPtr]
             ELSE [doms |-> [d0 EXCEPT
                               !.elems = SubSeq(d0.elems, 1, it)
                                         \o <<domain>>
                                         \o SubSeq(d0.elems, it + 1,
                                                   Len(d0.elems)),
                               !.capacity = cap],
                   ret |-> NullPtr]

\* The lock is taken and, when there is no array, not released.
RERR_Domain_UnregisterAll(doms) ==
    IF ~doms.alloc THEN [doms EXCEPT !.lock = @ + 1]
    ELSE [NoDomains EXCEPT !.lock = doms.lock]

\* The result is the memory and the registry after the call and the pointer
\* returned (NullPtr is RERR_NO_ERROR).
RERR_Domain_Register(m, doms, domainName, codeFormat, al) ==
    IF domainName.null
    THEN LET e == RERR_Error_CreateWithCode(m, doms,
                      Str(RERR_DOMAIN_RICHERRORS), RERR_ECODE_NULL_ARGUMENT,
                      Str(MsgNullDomain), al)
         IN  [mem |-> e.mem, doms |-> doms, ret |-> e.ret]
    ELSE LET err == Domain_Check(m, doms, domainName.chars, al)
             fmt == CodeFormat_Check(m, doms, codeFormat, al)
             domain == Domain_Create(domainName.chars, codeFormat, al)
             found == Domain_Find(doms, domainName.chars)
             exists == RERR_Error_CreateWithCode(m, doms,
                           Str(RERR_DOMAIN_RICHERRORS),
                           RERR_ECODE_DOMAIN_ALREADY_EXISTS,
                           Str(MsgAlreadyRegistered \o domainName.chars), al)
             ins == Domain_Insert(doms, domain, al)
         IN  IF err.ret # NullPtr
             THEN [mem |-> err.mem, doms |-> doms, ret |-> err.ret]
             ELSE IF fmt.ret # NullPtr
             THEN [mem |-> fmt.mem, doms |-> doms, ret |-> fmt.ret]
             ELSE IF domain.null
             THEN [mem |-> m, doms |-> doms, ret |-> OomPtr]
             ELSE IF ~found.null
             THEN [mem |-> exists.mem, doms |-> doms, ret |-> exists.ret]
             ELSE [mem |-> m, doms |-> ins.doms, ret |-> ins.ret]

RERR_InfoMap_IsOutOfMemory(m, imap) ==
    imap = OomPtr \/ (imap # NullPtr /\ m.infos[imap].oom)

RERR_InfoMap_IsEmpty(m, imap) ==
    IF imap = NullPtr THEN TRUE
    ELSE IF RERR_InfoMap_IsOutOfMemory(m, imap) THEN TRUE
    ELSE m.infos[imap].items = << >>

\* al.mapOK: calloc of the map and creation of its item array succeed.
RERR_InfoMap_Create(m, al) ==
    IF ~al.mapOK THEN [mem |-> m, ret |-> OomPtr]
    ELSE LET p == NewInfo(m)
         IN  [mem |-> [m EXCEPT !.infos[p] =
                          [FreshInfo EXCEPT !.state = "live", !.refCount = 1]],
              ret |-> p]

RERR_InfoMap_Destroy(m, imap) ==
    IF imap = NullPtr THEN m
    ELSE IF imap = OomPtr THEN m
    ELSE IF m.infos[imap].refCount - 1 > 0
    THEN [m EXCEPT !.infos[imap].refCount = @ - 1]
    ELSE [m EXCEPT !.infos[imap] = [FreshInfo EXCEPT !.state = "freed"]]

\* al.itemsOK: RERR_DynArray_Insert can grow the item array of the copy
\* (an ideal capacity of 0 frees the storage that the insert then writes);
\* al.keyOK: the allocations of DeepCopyItem succeed.  A source in
\* out-of-memory mode has items == NULL, which RERR_DynArray_Begin
\* dereferences.  When DeepCopyItem fails, the item just inserted holds an
\* indeterminate or dangling key, which RERR_InfoMap_Destroy(ret) frees:
\* al.ub says whether the process survives that free.
MutableCopy(m, source, al) ==
    LET c == RERR_InfoMap_Create(m, al)
    IN  IF RERR_InfoMap_IsOutOfMemory(c.mem, c.ret) THEN c
        ELSE IF m.infos[source].oom
        THEN [mem |-> Fault(m), ret |-> NullPtr]
        ELSE IF m.infos[source].items = << >> THEN c
        ELSE IF ~al.itemsOK THEN [mem |-> m, ret |-> NullPtr]
        ELSE IF ~al.keyOK
        THEN IF al.ub = "fault" THEN [mem |-> Fault(m), ret |-> NullPtr]
             ELSE [mem |-> m, ret |-> NullPtr]
        ELSE IF IdealCapacity(Build(ItemArray, al.shift),
                              Len(m.infos[source].items)) = 0
        THEN [mem |-> Fault(m), ret |-> NullPtr]
        ELSE [mem |-> [c.mem EXCEPT
                          !.infos[c.ret].items = m.infos[source].items,
                          !.infos[c.ret].capacity =
                              IdealCapacity(Build(ItemArray, al.shift),
                                            Len(m.infos[source].items))],
              ret |-> c.ret]

RERR_InfoMap_Copy(m, imap, al) ==
    IF imap = NullPtr THEN [mem |-> m, ret |-> NullPtr]
    ELSE IF imap = OomPtr THEN [mem |-> m, ret |-> OomPtr]
    ELSE IF m.infos[imap].immutable
    THEN [mem |-> [m EXCEPT !.infos[imap].refCount = @ + 1], ret |-> imap]
    ELSE MutableCopy(m, imap, al)

RERR_InfoMap_MutableCopy(m, imap, al) ==
    IF imap = NullPtr THEN [mem |-> m, ret |-> NullPtr]
    ELSE IF RERR_InfoMap_IsOutOfMemory(m, imap) THEN [mem |-> m, ret |-> OomPtr]
    ELSE MutableCopy(m, imap, al)

RERR_InfoMap_MakeImmutable(m, imap) ==
    IF imap = NullPtr THEN m
    ELSE IF imap = OomPtr THEN m
    ELSE [m EXCEPT !.infos[imap].immutable = TRUE]

RERR_InfoMap_ImmutableCopy(m, imap, al) ==
    LET c == RERR_InfoMap_Copy(m, imap, al)
    IN  IF c.mem.fault THEN c
        ELSE [mem |-> RERR_InfoMap_MakeImmutable(c.mem, c.ret), ret |-> c.ret]

RERR_InfoMap_IsMutable(m, imap) ==
    IF imap = NullPtr THEN FALSE
    ELSE IF imap = OomPtr THEN FALSE
    ELSE ~m.infos[imap].immutable

ItemKeyCompare(item, key) == StrCmp(item.key, key)

\* BSearch of DynArray.c over the items; positions count from 0.
RECURSIVE Item_BSearchLoop(_, _, _, _, _)
Item_BSearchLoop(arr, key, left, right, exact) ==
    IF left = right THEN (IF exact THEN NullPos ELSE left)
    ELSE LET count == right - left
             middle == left + count \div 2
             cmp == ItemKeyCompare(arr[middle + 1], key)
         IN  IF cmp = 0 THEN middle
             ELSE IF cmp > 0 THEN Item_BSearchLoop(arr, key, left, middle, exact)
             ELSE IF left = middle THEN (IF exact THEN NullPos ELSE right)
             ELSE Item_BSearchLoop(arr, key, middle, right, exact)

\* Precondition: imap is a map that is not in out-of-memory mode.
Find(m, imap, key) ==
    Item_BSearchLoop(m.infos[imap].items, key, 0, Len(m.infos[imap].items),
                     TRUE)

SwitchToOutOfMemory_KeepsItems(m, imap) ==
    [m EXCEPT !.infos[imap].oom = TRUE]

SwitchToOutOfMemory(m, imap) ==
    [m EXCEPT !.infos[imap].items = << >>,
              !.infos[imap].capacity = 0,
              !.infos[imap].oom = TRUE]

\* The static Clear of InfoMap.c followed by RERR_DynArray_Clear, as
\* RERR_InfoMap_Clear calls them: the items are freed, the array is emptied.
ClearItems(m, imap, al) ==
    [m EXCEPT !.infos[imap].items = << >>,
              !.infos[imap].capacity =
                  MaybeShrink(ItemArray, m.infos[imap].capacity, 0,
                              al.itemsOK)]

\* SetKey: ok, and the position `it` of the item that now has the key and
\* whose value the caller writes next; al.keyOK is the malloc of the key
\* copy, al.itemsOK the growth of the item array.  With an ideal capacity
\* of 0 SetCapacity frees the storage, and RERR_DynArray_Insert and the
\* caller write through the null pointer.
SetKey(m, imap, key, al) ==
    LET old == m.infos[imap].items
        it == Item_BSearchLoop(old, key, 0, Len(old), FALSE)
        cap == EnsureCapacity(Build(ItemArray, al.shift),
                              m.infos[imap].capacity, Len(old) + 1,
                              al.itemsOK)
    IN  IF it # Len(old) /\ StrCmp(old[it + 1].key, key) = 0
        THEN [mem |-> [m EXCEPT !.infos[imap].items[it + 1] =
                                   [Hole EXCEPT !.key = key]],
              ok |-> TRUE, it |-> it]
        ELSE IF ~al.keyOK
        THEN [mem |-> SwitchToOutOfMemory(m, imap), ok |-> FALSE,
              it |-> NullPos]
        ELSE IF cap = NullPos
        THEN [mem |-> SwitchToOutOfMemory(m, imap), ok |-> FALSE,
              it |-> NullPos]
        ELSE IF cap = 0
        THEN [mem |-> Fault(m), ok |-> FALSE, it |-> NullPos]
        ELSE [mem |-> [m EXCEPT
                          !.infos[imap].items =
                              SubSeq(old, 1, it)
                              \o <<[Hole EXCEPT !.key = key]>>
                              \o SubSeq(old, it + 1, Len(old)),
                          !.infos[imap].capacity = cap],
              ok |-> TRUE, it |-> it]

\* key and value are strings that may be null; al.msgOK is the malloc of
\* the copy of the value.
RERR_InfoMap_SetString(m, imap, key, value, al) ==
    IF imap = NullPtr THEN m
    ELSE IF imap = OomPtr THEN m
    ELSE IF key.null THEN [m EXCEPT !.infos[imap].nullKey = TRUE]
    ELSE IF value.null THEN [m EXCEPT !.infos[imap].nullValue = TRUE]
    ELSE IF m.infos[imap].immutable
    THEN [m EXCEPT !.infos[imap].mutated = TRUE]
    ELSE IF m.infos[imap].oom THEN m
    ELSE IF ~al.msgOK THEN SwitchToOutOfMemory(m, imap)
    ELSE LET k == SetKey(m, imap, key.chars, al)
         IN  IF ~k.ok THEN k.mem
             ELSE [k.mem EXCEPT !.infos[imap].items[k.it + 1] =
                                   [key |-> key.chars, type |-> "String",
                                    value |-> value.chars]]

SetScalar_ImmutableFirst(m, imap, key, type, value, al) ==
    IF imap = NullPtr THEN m
    ELSE IF imap = OomPtr THEN m
    ELSE IF m.infos[imap].immutable
    THEN [m EXCEPT !.infos[imap].mutated = TRUE]
    ELSE IF key.null THEN [m EXCEPT !.infos[imap].nullKey = TRUE]
    ELSE IF m.infos[imap].oom THEN m
    ELSE LET k == SetKey(m, imap, key.chars, al)
         IN  IF ~k.ok THEN k.mem
             ELSE [k.mem EXCEPT !.infos[imap].items[k.it + 1] =
                                   [key |-> key.chars, type |-> type,
                                    value |-> value]]

\* The body shared by SetBool, SetI64, SetU64 and SetF64, which differ in
\* the type they store.
SetScalar(m, imap, key, type, value, al) ==
    IF imap = NullPtr THEN m
    ELSE IF imap = OomPtr THEN m
    ELSE IF key.null THEN [m EXCEPT !.infos[imap].nullKey = TRUE]
    ELSE IF m.infos[imap].immutable
    THEN [m EXCEPT !.infos[imap].mutated = TRUE]
    ELSE IF m.infos[imap].oom THEN m
    ELSE LET k == SetKey(m, imap, key.chars, al)
         IN  IF ~k.ok THEN k.mem
             ELSE [k.mem EXCEPT !.infos[imap].items[k.it + 1] =
                                   [key |-> key.chars, type |-> type,
                                    value |-> value]]

RERR_InfoMap_SetBool(m, imap, key, value, al) ==
    SetScalar(m, imap, key, "Bool", value, al)

RERR_InfoMap_SetI64(m, imap, key, value, al) ==
    SetScalar(m, imap, key, "I64", value, al)

RERR_InfoMap_SetU64(m, imap, key, value, al) ==
    SetScalar(m, imap, key, "U64", value, al)

RERR_InfoMap_SetF64(m, imap, key, value, al) ==
    SetScalar(m, imap, key, "F64", value, al)

\* With an ideal capacity of 0 for the items that remain, MaybeShrink
\* frees their storage and every later call reads it: the model ends the
\* process at the call that frees it.
RERR_InfoMap_Remove(m, imap, key, al) ==
    IF imap = NullPtr THEN m
    ELSE IF imap = OomPtr THEN m
    ELSE IF key.null THEN [m EXCEPT !.infos[imap].nullKey = TRUE]
    ELSE IF m.infos[imap].immutable
    THEN [m EXCEPT !.infos[imap].mutated = TRUE]
    ELSE IF m.infos[imap].oom THEN m
    ELSE LET old == m.infos[imap].items
             found == Find(m, imap, key.chars)
             cap == MaybeShrink(Build(ItemArray, al.shift),
                                m.infos[imap].capacity, Len(old) - 1,
                                al.itemsOK)
         IN  IF found = NullPos THEN m
             ELSE IF cap = 0 /\ Len(old) > 1 THEN Fault(m)
             ELSE [m EXCEPT
                      !.infos[imap].items =
                          SubSeq(old, 1, found)
                          \o SubSeq(old, found + 2, Len(old)),
                      !.infos[imap].capacity = cap]

Clear_IgnoresImmutable(m, imap, al) ==
    IF imap = NullPtr THEN m
    ELSE IF imap = OomPtr THEN m
    ELSE IF m.infos[imap].oom THEN m
    ELSE ClearItems(m, imap, al)

RERR_InfoMap_Clear(m, imap, al) ==
    IF imap = NullPtr THEN m
    ELSE IF imap = OomPtr THEN m
    ELSE IF m.infos[imap].immutable
    THEN [m EXCEPT !.infos[imap].mutated = TRUE]
    ELSE IF m.infos[imap].oom THEN m
    ELSE ClearItems(m, imap, al)

\* The flags of the map are read before the map is compared with the
\* out-of-memory map value, which is not the address of an object.
RERR_InfoMap_ReserveCapacity(m, imap, capacity, al) ==
    IF imap = NullPtr THEN m
    ELSE IF imap = OomPtr THEN Fault(m)
    ELSE IF m.infos[imap].immutable THEN m
    ELSE IF RERR_InfoMap_IsOutOfMemory(m, imap) THEN m
    ELSE LET want == IF capacity < Len(m.infos[imap].items)
                     THEN Len(m.infos[imap].items) ELSE capacity
             cap == EnsureCapacity(Build(ItemArray, al.shift),
                                   m.infos[imap].capacity, want, al.itemsOK)
         IN  IF cap = NullPos THEN m
             ELSE IF cap = 0 /\ m.infos[imap].items # << >> THEN Fault(m)
             ELSE [m EXCEPT !.infos[imap].capacity = cap]

RERR_InfoMap_MakeOutOfMemory(m, imap) ==
    IF imap = NullPtr THEN m
    ELSE IF imap = OomPtr THEN m
    ELSE IF m.infos[imap].immutable
    THEN [m EXCEPT !.infos[imap].mutated = TRUE]
    ELSE IF m.infos[imap].oom THEN m
    ELSE SwitchToOutOfMemory(m, imap)

\* map->flags is read without a test of map: NULL and the out-of-memory
\* map value are not addresses of a map.
RERR_InfoMap_HasProgrammingErrors(m, imap) ==
    IF ~IsObject(imap) THEN [mem |-> Fault(m), ret |-> FALSE]
    ELSE [mem |-> m,
          ret |-> \/ m.infos[imap].mutated
                  \/ m.infos[imap].nullKey
                  \/ m.infos[imap].nullValue]

\* strlen of the three messages of RERR_InfoMap_GetProgrammingErrors
LenErr1 == 40
LenErr2 == 43
LenErr3 == 45

\* The return value of RERR_InfoMap_GetProgrammingErrors: the size that
\* the text of the errors needs, with the spaces between the messages and
\* the terminating null byte.
RERR_InfoMap_GetProgrammingErrors(m, imap) ==
    IF ~IsObject(imap) THEN [mem |-> Fault(m), ret |-> 0]
    ELSE LET f == m.infos[imap]
             len1 == IF f.mutated THEN LenErr1 ELSE 0
             len2 == IF ~f.nullKey THEN len1
                     ELSE len1 + (IF len1 > 0 THEN 1 ELSE 0) + LenErr2
             len3 == IF ~f.nullValue THEN len2
                     ELSE len2 + (IF len2 > 0 THEN 1 ELSE 0) + LenErr3
         IN  [mem |-> m, ret |-> len3 + 1]

RERR_InfoMap_GetSize(m, imap) ==
    IF imap = NullPtr THEN 0
    ELSE IF RERR_InfoMap_IsOutOfMemory(m, imap) THEN 0
    ELSE Len(m.infos[imap].items)

RERR_InfoMap_HasKey(m, imap, key) ==
    IF imap = NullPtr \/ key.null \/ RERR_InfoMap_IsOutOfMemory(m, imap)
    THEN FALSE
    ELSE Find(m, imap, key.chars) # NullPos

RERR_InfoMap_GetType(m, imap, key) ==
    IF imap = NullPtr \/ key.null \/ RERR_InfoMap_IsOutOfMemory(m, imap)
    THEN "Invalid"
    ELSE IF Find(m, imap, key.chars) = NullPos THEN "Invalid"
    ELSE m.infos[imap].items[Find(m, imap, key.chars) + 1].type

\* The body shared by GetString, GetBool, GetI64, GetU64 and GetF64 called
\* with a non-null value pointer: the result and what *value holds, which
\* is `none` (NULL, false, 0 or NaN) when the result is false.
GetTyped(m, imap, key, type, none) ==
    IF imap = NullPtr \/ key.null \/ RERR_InfoMap_IsOutOfMemory(m, imap)
    THEN [ok |-> FALSE, value |-> none]
    ELSE LET found == Find(m, imap, key.chars)
         IN  IF found = NullPos THEN [ok |-> FALSE, value |-> none]
             ELSE IF m.infos[imap].items[found + 1].type # type
             THEN [ok |-> FALSE, value |-> none]
             ELSE [ok |-> TRUE, value |-> m.infos[imap].items[found + 1].value]

RERR_InfoMap_GetString(m, imap, key) == GetTyped(m, imap, key, "String", "NULL")

RERR_InfoMap_GetBool(m, imap, key) == GetTyped(m, imap, key, "Bool", FALSE)

RERR_InfoMap_GetI64(m, imap, key) == GetTyped(m, imap, key, "I64", 0)

RERR_InfoMap_GetU64(m, imap, key) == GetTyped(m, imap, key, "U64", 0)

RERR_InfoMap_GetF64(m, imap, key) == GetTyped(m, imap, key, "F64", "NaN")

RERR_Error_CreateWithInfo(m, doms, domainName, code, info, message, al) ==
    LET r == RERR_Error_CreateWithCode(m, doms, domainName, code, message, al)
        ret == r.ret
        c == RERR_InfoMap_ImmutableCopy(r.mem, info, al)
    IN  IF RERR_InfoMap_IsEmpty(r.mem, info)
        THEN [mem |-> RERR_InfoMap_Destroy(r.mem, info), ret |-> ret]
        ELSE IF domainName.null
        THEN [mem |-> RERR_InfoMap_Destroy(r.mem, info), ret |-> ret]
        ELSE IF \/ ret = OomPtr
                \/ r.mem.errors[ret].domain.null
                \/ StrCmp(r.mem.errors[ret].domain.name, domainName.chars) # 0
                \/ r.mem.errors[ret].code # code
        THEN [mem |-> RERR_InfoMap_Destroy(r.mem, info), ret |-> ret]
        ELSE IF c.mem.fault THEN c
        ELSE [mem |-> RERR_InfoMap_Destroy(
                          [c.mem EXCEPT !.errors[ret].info = c.ret], info),
              ret |-> ret]

RECURSIVE RERR_Error_Destroy(_, _)
RERR_Error_Destroy(m, error) ==
    IF error = NullPtr \/ error = OomPtr THEN m
    ELSE IF m.errors[error].refCount - 1 = 0
    THEN RERR_Error_Destroy(
             [m EXCEPT !.errors[error] = [FreshError EXCEPT !.state = "freed"]],
             m.errors[error].cause)
    ELSE [m EXCEPT !.errors[error].refCount = @ - 1]

\* RERR_Error_Copy without the increment of the refcount
Copy_NoIncrement(m, source) == [mem |-> m, ret |-> source]

\* ret is what *destination holds afterwards.
RERR_Error_Copy(m, source) ==
    IF source = NullPtr \/ source = OomPtr THEN [mem |-> m, ret |-> source]
    ELSE [mem |-> [m EXCEPT !.errors[source].refCount = @ + 1],
          ret |-> source]

\* RERR_Error_Wrap without the RERR_Error_Destroy(cause) of its
\* out-of-memory path
Wrap_KeepsCauseOnOom(m, cause, message, al) ==
    LET r == RERR_Error_Create(m, message, al)
    IN  IF r.ret = OomPtr THEN r
        ELSE [mem |-> [r.mem EXCEPT !.errors[r.ret].cause = cause],
              ret |-> r.ret]

RERR_Error_Wrap(m, cause, message, al) ==
    LET r == RERR_Error_Create(m, message, al)
    IN  IF r.ret = OomPtr
        THEN [mem |-> RERR_Error_Destroy(r.mem, cause), ret |-> r.ret]
        ELSE [mem |-> [r.mem EXCEPT !.errors[r.ret].cause = cause],
              ret |-> r.ret]

\* RERR_Error_WrapWithCode that attaches the cause only to the error that
\* was asked for and destroys it when another error is returned
WrapWithCode_DropsCauseOnFailure(m, doms, cause, domainName, code, message, al) ==
    LET r == RERR_Error_CreateWithCode(m, doms, domainName, code, message, al)
    IN  IF r.ret = OomPtr \/ r.mem.errors[r.ret].code # code
        THEN [mem |-> RERR_Error_Destroy(r.mem, cause), ret |-> r.ret]
        ELSE [mem |-> [r.mem EXCEPT !.errors[r.ret].cause = cause],
              ret |-> r.ret]

RERR_Error_WrapWithCode(m, doms, cause, domainName, code, message, al) ==
    LET r == RERR_Error_CreateWithCode(m, doms, domainName, code, message, al)
    IN  IF r.ret = OomPtr
        THEN [mem |-> RERR_Error_Destroy(r.mem, cause), ret |-> r.ret]
        ELSE [mem |-> [r.mem EXCEPT !.errors[r.ret].cause = cause],
              ret |-> r.ret]

RERR_Error_WrapWithInfo(m, doms, cause, domainName, code, info, message, al) ==
    LET r == RERR_Error_CreateWithInfo(m, doms, domainName, code, info,
                                       message, al)
    IN  IF r.mem.fault THEN r
        ELSE IF r.ret = OomPtr
        THEN [mem |-> RERR_Error_Destroy(r.mem, cause), ret |-> r.ret]
        ELSE [mem |-> [r.mem EXCEPT !.errors[r.ret].cause = cause],
              ret |-> r.ret]

RERR_Error_HasCause(m, error) ==
    IF error = NullPtr \/ error = OomPtr THEN FALSE
    ELSE m.errors[error].cause # NullPtr

RERR_Error_GetCause(m, error) ==
    IF error = NullPtr \/ error = OomPtr THEN NullPtr
    ELSE m.errors[error].cause

\* "(no error)"
MsgNoError ==
    <<40, 110, 111, 32, 101, 114, 114, 111, 114, 41>>

\* "Out of memory"
MsgOutOfMemory ==
    <<79, 117, 116, 32, 111, 102, 32, 109, 101, 109, 111, 114, 121>>

\* "(error message unavailable)"
MsgUnavailable ==
    <<40, 101, 114, 114, 111, 114, 32, 109, 101, 115, 115, 97, 103, 101,
      32, 117, 110, 97, 118, 97, 105, 108, 97, 98, 108, 101, 41>>

\* "(empty error message)"
MsgEmptyMessage ==
    <<40, 101, 109, 112, 116, 121, 32, 101, 114, 114, 111, 114, 32, 109,
      101, 115, 115, 97, 103, 101, 41>>

RERR_Error_HasCode(m, error) ==
    IF error = NullPtr THEN FALSE
    ELSE IF error = OomPtr THEN TRUE
    ELSE ~m.errors[error].domain.null

\* The bytes of the string returned
RERR_Error_GetDomain(m, error) ==
    IF error = NullPtr THEN << >>
    ELSE IF error = OomPtr THEN RERR_DOMAIN_CRITICAL
    ELSE IF m.errors[error].domain.null THEN << >>
    ELSE m.errors[error].domain.name

\* A variant of RERR_Error_GetCode without the out-of-memory case
GetCode_OomIsZero(m, error) ==
    IF IsObject(error) THEN m.errors[error].code ELSE 0

RERR_Error_GetCode(m, error) ==
    IF error = NullPtr THEN 0
    ELSE IF error = OomPtr THEN RERR_ECODE_OUT_OF_MEMORY
    ELSE m.errors[error].code

RERR_Error_HasInfo(m, error) ==
    IF error = NullPtr \/ error = OomPtr THEN FALSE
    ELSE /\ m.errors[error].info # NullPtr
         /\ ~RERR_InfoMap_IsEmpty(m, m.errors[error].info)

\* al.mapOK is the calloc of the map that is made for an error without one.
RERR_Error_GetInfo(m, error, al) ==
    IF error = NullPtr \/ error = OomPtr
       \/ m.errors[error].info = NullPtr
    THEN LET c == RERR_InfoMap_Create(m, al)
         IN  [mem |-> RERR_InfoMap_MakeImmutable(c.mem, c.ret), ret |-> c.ret]
    ELSE RERR_InfoMap_ImmutableCopy(m, m.errors[error].info, al)

\* The bytes of the string returned
RERR_Error_GetMessage(m, error) ==
    IF error = NullPtr THEN MsgNoError
    ELSE IF error = OomPtr THEN MsgOutOfMemory
    ELSE IF m.errors[error].message.null THEN MsgUnavailable
    ELSE IF m.errors[error].message.chars = << >> THEN MsgEmptyMessage
    ELSE m.errors[error].message.chars

\* RERR_Error_IsOutOfMemory for an error given as its address
RERR_Error_IsOutOfMemoryPtr(error) == error = OomPtr

\* No array has been created.  appendOnly is history: since the array was
\* created, the only calls that changed it were inserts at the end.
NoArray ==
    [state |-> "none", arr |-> Build(RERR_DynArray_Create(1), "modulo"),
     elems |-> << >>, capacity |-> 0, storage |-> 0, allocs |-> 0,
     appendOnly |-> TRUE]

ArrIdle == array = NoArray

\* No call of RERR_Error_FormatCode has been made or prepared.
NoFormatCall ==
    [state |-> "none", error |-> NullPtr, destNull |-> TRUE, destSize |-> 0,
     written |-> FALSE, dest |-> << >>]

FmtIdle == fcall = NoFormatCall

ErrIdle ==
    /\ mem = EmptyMem
    /\ domains = NoDomains
    /\ held = [errors |-> [p \in ErrorPtrs |-> 0],
               infos |-> [p \in InfoPtrs |-> 0]]
    /\ elast = [op |-> "none", cause |-> NullPtr, ret |-> NullPtr]
    /\ args = [domainName |-> NullStr, code |-> 0, message |-> NullStr]

-----------------------------------------------------------------------------
(* The registry as a state machine: calls made by the threads *)

Threads == 1..NumThreads

Errors == 1..MaxErrors

\* A thread that is not inside RERR_ErrorMap_RegisterThreadLocal; ret and
\* examined are those of the call it made last.
NotCalling ==
    [pc |-> "idle", error |-> RERR_NO_ERROR, firstCandidate |-> 0,
     code |-> 0, ret |-> 0, examined |-> << >>]

\* The mutex is free (owner 0) and no thread has called yet.
NoCalls ==
    [owner |-> 0, calls |-> 0, thread |-> [t \in Threads |-> NotCalling]]

PrbIdle == regCall = NoCalls

\* A thread that is not inside RERR_Domain_Register; ret is what the call
\* it made last returned.
NotRegistering ==
    [pc |-> "idle", name |-> << >>, fails |-> "none", found |-> FALSE,
     ret |-> NullPtr, called |-> FALSE]

\* domainsLock is free (owner 0) and no thread has called yet.
NoRegisterCalls ==
    [owner |-> 0, thread |-> [t \in Threads |-> NotRegistering]]

DcIdle == domCall = NoRegisterCalls

\* A thread that is not inside RERR_Error_Copy or RERR_Error_Destroy: owns
\* is the number of references to the error it owns, calls the number of
\* calls it has made.
NotCounting ==
    [pc |-> "idle", op |-> "none", error |-> NullPtr, read |-> 0,
     owns |-> 0, calls |-> 0]

RcIdle == rcCall = [t \in Threads |-> NotCounting]

\* An empty array in which nothing has been searched
NoSearch == [elems |-> << >>, op |-> "none", key |-> 0, ret |-> 0]

SrIdle == search = NoSearch

Config(minCode, maxCode, noErrorCode, oomCode, failCode) ==
    [null |-> FALSE, minMappedCode |-> minCode, maxMappedCode |-> maxCode,
     noErrorCode |-> noErrorCode, outOfMemoryCode |-> oomCode,
     mapFailureCode |-> failCode]

\* The configurations registries are created with: the ones of the tests
\* (a single code, a range wrapping at INT32_MAX), a range whose
\* out-of-memory and map-failure codes coincide, and one Create rejects.
RegistryConfigs ==
    { Config(1, 1, 0, -1, -2),
      Config(INT32_MAX, INT32_MIN, 0, -1, -2),
      Config(1, MaxCode, 0, -1, -1),
      Config(0, MaxCode, 0, -1, -2) }

RECURSIVE CodesFrom(_, _, _)
CodesFrom(code, minCode, maxCode) ==
    IF code = maxCode THEN {code}
    ELSE {code} \cup CodesFrom(IncrementCode(code, minCode, maxCode),
                               minCode, maxCode)

\* The codes of the mapped range (small ranges only).
MappedCodes(m) == CodesFrom(m.minCode, m.minCode, m.maxCode)

\* The codes callers pass: the mapped ones, the three special ones and one
\* that is neither.
ArgCodes(m) ==
    MappedCodes(m) \cup {m.noErrorCode, m.oomCode, m.failCode, UnmappedCode}

Count(seq, x) == Cardinality({i \in 1..Len(seq) : seq[i] = x})

\* The ledger after the registry passed `destroyed` to RERR_Error_Destroy.
Destroyed(led, destroyed) ==
    [e \in Errors |->
        [led[e] EXCEPT !.destroyed = @ + Count(destroyed, CallerError(e))]]

NumRegistered == Cardinality({e \in Errors : ledger[e].registered})

\* No call of RERR_ErrorMap_Create is under study.
NullConfig ==
    [null |-> TRUE, minMappedCode |-> 0, maxMappedCode |-> 0,
     noErrorCode |-> 0, outOfMemoryCode |-> 0, mapFailureCode |-> 0]

NotCalled ==
    [called |-> FALSE, hasMap |-> FALSE, errOK |-> FALSE, mapOK |-> FALSE,
     err |-> RERR_NO_ERROR, map |-> NullMap]

CfgIdle == cfgIn = NullConfig /\ cfgOut = NotCalled

RegIdle ==
    /\ map = NullMap
    /\ last = [op |-> "none", thread |-> 0, code |-> 0,
               error |-> RERR_NO_ERROR, flag |-> FALSE]
    /\ ledger = [e \in Errors |->
                    [registered |-> FALSE, returned |-> 0, destroyed |-> 0]]
    /\ expected = {}

Init ==
    /\ CfgIdle
    /\ ErrIdle
    /\ ArrIdle
    /\ FmtIdle
    /\ PrbIdle
    /\ DcIdle
    /\ RcIdle
    /\ SrIdle
    /\ \E config \in RegistryConfigs :
          LET made == RERR_ErrorMap_Create(TRUE, config, TRUE, TRUE)
          IN  made.err = RERR_NO_ERROR /\ map = made.map
    /\ last = [op |-> "create", thread |-> 0, code |-> 0,
               error |-> RERR_NO_ERROR, flag |-> FALSE]
    /\ ledger = [e \in Errors |->
                    [registered |-> FALSE, returned |-> 0, destroyed |-> 0]]
    /\ expected = {}

\* Thread t registers a sentinel value.
RegisterSentinel(t) ==
    /\ map.alive
    /\ UNCHANGED <<cfgVars, errVars, arrVars, fmtVars, prbVars, dcVars, rcVars,
            srVars>>
    /\ \E error \in {RERR_NO_ERROR, RERR_OUT_OF_MEMORY} :
          LET r == RERR_ErrorMap_RegisterThreadLocal(map, t, error, TRUE)
          IN  /\ map' = r.map
              /\ last' = [op |-> "register", thread |-> t, code |-> r.ret,
                          error |-> error, flag |-> r.inserted]
              /\ ledger' = Destroyed(ledger, r.destroyed)
              /\ expected' = expected

\* Thread t registers an error it has just made.
RegisterError(t) ==
    /\ map.alive
    /\ UNCHANGED <<cfgVars, errVars, arrVars, fmtVars, prbVars, dcVars, rcVars,
            srVars>>
    /\ NumRegistered < MaxErrors
    /\ \E allocOK \in BOOLEAN :
          LET e == NumRegistered + 1
              error == CallerError(e)
              r == RERR_ErrorMap_RegisterThreadLocal(map, t, error, allocOK)
          IN  /\ map' = r.map
              /\ last' = [op |-> "register", thread |-> t, code |-> r.ret,
                          error |-> error, flag |-> r.inserted]
              /\ ledger' = Destroyed(
                     [ledger EXCEPT ![e].registered = TRUE], r.destroyed)
              /\ expected' =
                     IF r.inserted
                     THEN {x \in expected : ~(x.thread = t /\ x.code = r.ret)}
                          \cup {[thread |-> t, code |-> r.ret, error |-> error]}
                     ELSE expected

Retrieve(t) ==
    /\ map.alive
    /\ UNCHANGED <<cfgVars, errVars, arrVars, fmtVars, prbVars, dcVars, rcVars,
            srVars>>
    /\ \E code \in ArgCodes(map), allocOK \in BOOLEAN :
          LET r == RERR_ErrorMap_RetrieveThreadLocal(map, t, code, allocOK)
          IN  /\ map' = r.map
              /\ last' = [op |-> "retrieve", thread |-> t, code |-> code,
                          error |-> r.ret, flag |-> FALSE]
              /\ ledger' = IF r.ret.kind = "Error"
                           THEN [ledger EXCEPT ![r.ret.id].returned = @ + 1]
                           ELSE ledger
              /\ expected' = {x \in expected : ~(x.thread = t /\ x.code = code)}

Clear(t) ==
    /\ map.alive
    /\ UNCHANGED <<cfgVars, errVars, arrVars, fmtVars, prbVars, dcVars, rcVars,
            srVars>>
    /\ \E allocOK \in BOOLEAN :
          LET r == RERR_ErrorMap_ClearThreadLocal(map, t, allocOK)
          IN  /\ map' = r.map
              /\ last' = [op |-> "clear", thread |-> t, code |-> 0,
                          error |-> RERR_NO_ERROR, flag |-> FALSE]
              /\ ledger' = Destroyed(ledger, r.destroyed)
              /\ expected' = {x \in expected : x.thread # t}

\* The registry is destroyed, by the one caller that may do so.
Destroy ==
    /\ map.alive
    /\ UNCHANGED <<cfgVars, errVars, arrVars, fmtVars, prbVars, dcVars, rcVars,
            srVars>>
    /\ map' = [map EXCEPT !.alive = FALSE, !.mappings = << >>,
                          !.mapCapacity = 0]
    /\ last' = [op |-> "destroy", thread |-> 0, code |-> 0,
                error |-> RERR_NO_ERROR, flag |-> FALSE]
    /\ ledger' = Destroyed(ledger, RERR_ErrorMap_Destroy(map))
    /\ expected' = {}

Next ==
    \/ \E t \in Threads : RegisterSentinel(t)
    \/ \E t \in Threads : RegisterError(t)
    \/ \E t \in Threads : Retrieve(t)
    \/ \E t \in Threads : Clear(t)
    \/ Destroy

Spec == Init /\ [][Next]_vars

-----------------------------------------------------------------------------
(* Properties of the registry *)

\* What the claims call a code of the mapped range, from the documentation
\* of RERR_ErrorMapConfig (Err2Code.h).
InMappedRange(code, m) ==
    IF m.minCode <= m.maxCode
    THEN m.minCode <= code /\ code <= m.maxCode
    ELSE m.minCode <= code \/ code <= m.maxCode

SpecialCodes(m) == {m.noErrorCode, m.oomCode, m.failCode}

\* The table holds an entry for (thread, code).
HasEntry(m, thread, code) ==
    \E i \in 1..Len(m.mappings) :
        m.mappings[i].thread = thread /\ m.mappings[i].code = code

\* The table holds an entry whose error is `error`.
HoldsError(m, error) ==
    \E i \in 1..Len(m.mappings) : m.mappings[i].error = error

MapInvalidCodeError == [kind |-> "RichErrors", id |-> RERR_ECODE_MAP_INVALID_CODE]

MapFailureError == [kind |-> "RichErrors", id |-> RERR_ECODE_MAP_FAILURE]

\* C1: whenever register(e) on thread T returned the mapped code c and T has
\* not retrieved c or cleared since, T's next retrieve(c) returns e itself
\* and removes the (T, c) entry: c is then not registered for T and a second
\* retrieve(c) returns a MapInvalidCode error.
C1_RetrieveReturnsRegistered ==
    map.alive =>
        \A x \in expected : \A allocOK \in BOOLEAN :
            LET r == RERR_ErrorMap_RetrieveThreadLocal(
                         map, x.thread, x.code, allocOK)
            IN  /\ r.ret = x.error
                /\ ~RERR_ErrorMap_IsRegisteredThreadLocal(r.map, x.thread, x.code)
                /\ RERR_ErrorMap_RetrieveThreadLocal(
                       r.map, x.thread, x.code, TRUE).ret = MapInvalidCodeError

\* C2: every caller-made error given to register is handed out by exactly
\* one retrieve or destroyed exactly once by the registry, never both, never
\* twice and never leaked, and the table holds no entry for an error it has
\* already handed out or destroyed.
C2_OwnedExactlyOnce ==
    \A e \in Errors :
        ledger[e].registered =>
            LET n == ledger[e].returned + ledger[e].destroyed
            IN  /\ n <= 1
                /\ HoldsError(map, CallerError(e)) => n = 0
                /\ ~HoldsError(map, CallerError(e)) => n = 1

\* C3: clear on thread T removes only T's entries: every entry of another
\* thread is still registered afterwards and that thread's retrieve of its
\* code still returns its error.
C3_ClearKeepsOtherThreads ==
    map.alive =>
        \A t \in Threads : \A allocOK \in BOOLEAN :
            LET r == RERR_ErrorMap_ClearThreadLocal(map, t, allocOK)
            IN  \A i \in 1..Len(map.mappings) :
                    LET x == map.mappings[i]
                    IN  x.thread # t =>
                          /\ RERR_ErrorMap_IsRegisteredThreadLocal(
                                 r.map, x.thread, x.code)
                          /\ RERR_ErrorMap_RetrieveThreadLocal(
                                 r.map, x.thread, x.code, TRUE).ret = x.error

\* C4: after clear on thread T no mapped code is registered for T (a
\* retrieve returns a MapInvalidCode error), and every error T had
\* registered and not yet retrieved has been destroyed exactly once.
C4_ClearDestroysOwn ==
    map.alive =>
        \A t \in Threads : \A allocOK \in BOOLEAN :
            LET r == RERR_ErrorMap_ClearThreadLocal(map, t, allocOK)
            IN  /\ \A c \in MappedCodes(map) \cup {UnmappedCode} :
                      /\ ~RERR_ErrorMap_IsRegisteredThreadLocal(r.map, t, c)
                      /\ RERR_ErrorMap_RetrieveThreadLocal(
                             r.map, t, c, TRUE).ret = MapInvalidCodeError
                /\ \A x \in expected :
                      x.thread = t =>
                          ledger[x.error.id].destroyed
                              + Count(r.destroyed, x.error) = 1

\* Every code of the mapped range has an entry for the thread.
Exhausted(m, thread) == \A c \in MappedCodes(m) : HasEntry(m, thread, c)

\* C5: register of a caller-made error returns mapFailureCode when every
\* code of the range is registered for the calling thread, and
\* outOfMemoryCode when the table must grow and the allocation fails; both
\* times the error is destroyed and the entries are unchanged. With the
\* range [1, 1] a thread without an entry gets code 1 and the next
\* registration gets mapFailureCode.
C5_RegisterFailure ==
    map.alive =>
        \A t \in Threads, e \in Errors, allocOK \in BOOLEAN :
            LET r == RERR_ErrorMap_RegisterThreadLocal(
                         map, t, CallerError(e), allocOK)
                grows == map.mapCapacity < Len(map.mappings) + 1
            IN  /\ Exhausted(map, t) =>
                      /\ r.ret = map.failCode
                      /\ r.destroyed = <<CallerError(e)>>
                      /\ r.map.mappings = map.mappings
                /\ (~Exhausted(map, t) /\ grows /\ ~allocOK) =>
                      /\ r.ret = map.oomCode
                      /\ r.destroyed = <<CallerError(e)>>
                      /\ r.map.mappings = map.mappings
                /\ (~Exhausted(map, t) /\ (allocOK \/ ~grows)
                        /\ map.minCode = map.maxCode) =>
                      /\ r.ret = map.minCode
                      /\ r.destroyed = << >>
                      /\ Exhausted(r.map, t)

\* C5 witness: with the range [1, 1], a second error was registered by a
\* thread that holds code 1, and mapFailureCode came back.
C5_Witness ==
    /\ last.op = "register" /\ last.error = CallerError(2)
    /\ map.minCode = 1 /\ map.maxCode = 1
    /\ last.code = map.failCode
    /\ HasEntry(map, last.thread, 1)
    /\ ledger[2].destroyed = 1

NoDuplicateKeys(m) ==
    \A i, j \in 1..Len(m.mappings) :
        (m.mappings[i].thread = m.mappings[j].thread
            /\ m.mappings[i].code = m.mappings[j].code) => i = j

\* C6: a code under which register inserts an error for thread T lies in
\* the mapped range, is none of the three special codes and had no entry
\* for T when the call was made; no two entries share a (thread, code) pair.
C6_FreshMappedCode ==
    /\ NoDuplicateKeys(map)
    /\ map.alive =>
        \A t \in Threads, e \in Errors, allocOK \in BOOLEAN :
            LET r == RERR_ErrorMap_RegisterThreadLocal(
                         map, t, CallerError(e), allocOK)
            IN  r.inserted =>
                  /\ InMappedRange(r.ret, map)
                  /\ r.ret \notin SpecialCodes(map)
                  /\ ~HasEntry(map, t, r.ret)
                  /\ HasEntry(r.map, t, r.ret)
                  /\ NoDuplicateKeys(r.map)

\* C6 witness: both threads hold an entry under the same code, and the
\* last registration was given a code after probing past a used one.
C6_Witness ==
    /\ last.op = "register" /\ last.flag
    /\ Len(map.mappings) = 2
    /\ map.mappings[1].thread # map.mappings[2].thread
    /\ map.mappings[1].code = map.mappings[2].code

\* C8, as the specification words it: sentinels bypass the table, and retrieve of
\* mapFailureCode returns a MapFailure error.
C8_SentinelsBypassOriginal ==
    map.alive =>
        \A t \in Threads :
            RERR_ErrorMap_RetrieveThreadLocal(
                map, t, map.failCode, TRUE).ret = MapFailureError

\* C8: register of the no-error value returns noErrorCode and register of
\* the out-of-memory value returns outOfMemoryCode, leaving the cursor and
\* the table alone; retrieve of noErrorCode and of outOfMemoryCode return the
\* no-error and out-of-memory values, retrieve of mapFailureCode returns a
\* MapFailure error unless mapFailureCode equals outOfMemoryCode (then the
\* out-of-memory value), none changing the table; the three special codes
\* are always registered.
C8_SentinelsBypass ==
    map.alive =>
        \A t \in Threads, allocOK \in BOOLEAN :
            /\ RERR_ErrorMap_RegisterThreadLocal(
                   map, t, RERR_NO_ERROR, allocOK)
               = [map |-> map, ret |-> map.noErrorCode, inserted |-> FALSE,
                  destroyed |-> << >>]
            /\ RERR_ErrorMap_RegisterThreadLocal(
                   map, t, RERR_OUT_OF_MEMORY, allocOK)
               = [map |-> map, ret |-> map.oomCode, inserted |-> FALSE,
                  destroyed |-> << >>]
            /\ RERR_ErrorMap_RetrieveThreadLocal(map, t, map.noErrorCode, allocOK)
               = [map |-> map, ret |-> RERR_NO_ERROR]
            /\ RERR_ErrorMap_RetrieveThreadLocal(map, t, map.oomCode, allocOK)
               = [map |-> map, ret |-> RERR_OUT_OF_MEMORY]
            /\ RERR_ErrorMap_RetrieveThreadLocal(map, t, map.failCode, allocOK).map
               = map
            /\ RERR_ErrorMap_RetrieveThreadLocal(map, t, map.failCode, TRUE).ret
               = IF map.failCode = map.oomCode
                 THEN RERR_OUT_OF_MEMORY ELSE MapFailureError
            /\ \A c \in SpecialCodes(map) :
                   RERR_ErrorMap_IsRegisteredThreadLocal(map, t, c)

\* C8 witness: with entries in the table, mapFailureCode was retrieved on a
\* registry whose mapFailureCode is its outOfMemoryCode.
C8_Witness ==
    /\ last.op = "retrieve" /\ last.code = map.failCode
    /\ map.failCode = map.oomCode
    /\ last.error = RERR_OUT_OF_MEMORY
    /\ Len(map.mappings) > 0

-----------------------------------------------------------------------------
(* RERR_ErrorMap_Create on its own: configurations from a bounded set *)

CodeValues == {INT32_MIN, INT32_MAX} \cup (-1 .. MaxCode)

ConfigSpace ==
    {NullConfig} \cup
    { Config(lo, hi, n, o, f) :
        lo \in CodeValues, hi \in CodeValues, n \in CodeValues,
        o \in CodeValues, f \in CodeValues }

ConfigInit ==
    /\ RegIdle
    /\ ArrIdle
    /\ FmtIdle
    /\ PrbIdle
    /\ DcIdle
    /\ RcIdle
    /\ SrIdle
    /\ ErrIdle
    /\ cfgIn \in ConfigSpace
    /\ cfgOut = NotCalled

CreateMap ==
    /\ ~cfgOut.called
    /\ \E hasMap \in BOOLEAN, errOK \in BOOLEAN, mapOK \in BOOLEAN :
          LET r == RERR_ErrorMap_Create(hasMap, cfgIn, errOK, mapOK)
          IN  cfgOut' = [called |-> TRUE, hasMap |-> hasMap, errOK |-> errOK,
                         mapOK |-> mapOK, err |-> r.err, map |-> r.map]
    /\ UNCHANGED <<cfgIn, regVars, errVars, arrVars, fmtVars, prbVars, dcVars,
            rcVars, srVars>>

ConfigNext == CreateMap

SpecConfig == ConfigInit /\ [][ConfigNext]_vars

\* The code lies outside the mapped range [lo, hi], where lo > hi stands
\* for [lo, INT32_MAX] U [INT32_MIN, hi].
OutsideRange(code, lo, hi) ==
    IF lo <= hi THEN code < lo \/ code > hi ELSE code < lo /\ code > hi

SentinelsOutside(c) ==
    /\ OutsideRange(c.noErrorCode, c.minMappedCode, c.maxMappedCode)
    /\ OutsideRange(c.outOfMemoryCode, c.minMappedCode, c.maxMappedCode)
    /\ OutsideRange(c.mapFailureCode, c.minMappedCode, c.maxMappedCode)

\* A call with both pointers given in which no allocation failed.
CreateRan ==
    cfgOut.called /\ cfgOut.hasMap /\ ~cfgIn.null /\ cfgOut.errOK /\ cfgOut.mapOK

MapInvalidConfigError ==
    [kind |-> "RichErrors", id |-> RERR_ECODE_MAP_INVALID_CONFIG]

\* C7, as the specification words it: create succeeds when the three special codes
\* are pairwise distinct and each lies outside the mapped range, and fails
\* with MapInvalidConfig otherwise.
C7_CreateValidatesOriginal ==
    CreateRan =>
        IF /\ SentinelsOutside(cfgIn)
           /\ cfgIn.noErrorCode # cfgIn.outOfMemoryCode
           /\ cfgIn.noErrorCode # cfgIn.mapFailureCode
           /\ cfgIn.outOfMemoryCode # cfgIn.mapFailureCode
        THEN cfgOut.err = RERR_NO_ERROR /\ cfgOut.map.alive
        ELSE cfgOut.err = MapInvalidConfigError /\ ~cfgOut.map.alive

\* C7: when no allocation fails, create succeeds when each of the three
\* special codes lies outside the mapped range and noErrorCode differs from
\* outOfMemoryCode and from mapFailureCode (these two may be equal), and
\* fails with MapInvalidConfig otherwise.
C7_CreateValidates ==
    CreateRan =>
        IF /\ SentinelsOutside(cfgIn)
           /\ cfgIn.noErrorCode # cfgIn.outOfMemoryCode
           /\ cfgIn.noErrorCode # cfgIn.mapFailureCode
        THEN /\ cfgOut.err = RERR_NO_ERROR
             /\ cfgOut.map.alive
             /\ cfgOut.map.nextCode = cfgIn.minMappedCode
             /\ cfgOut.map.mappings = << >>
        ELSE cfgOut.err = MapInvalidConfigError /\ ~cfgOut.map.alive

\* C7 witness: a registry was created over a range that wraps at INT32_MAX
\* with outOfMemoryCode equal to mapFailureCode.
C7_Witness ==
    /\ CreateRan /\ cfgOut.map.alive
    /\ cfgIn.minMappedCode > cfgIn.maxMappedCode
    /\ cfgIn.outOfMemoryCode = cfgIn.mapFailureCode

-----------------------------------------------------------------------------
(* Errors and info maps as a state machine: calls made by one caller, who
   passes on only pointers it owns and whose domain registry is fixed *)

NameA == <<65>>

NameB == <<66>>

LongName == [i \in 1..(MAX_DOMAIN_LENGTH + 1) |-> 65]

ControlName == <<65, 7>>

KeyK == <<107>>

Messages == {NullStr, Str(<<109>>)}

DomainArgs ==
    {NullStr, Str(<< >>), Str(NameA), Str(NameB), Str(ControlName),
     Str(LongName)}

\* What the caller passes for the domain name, the code and the message,
\* fixed over a behaviour
Scenario(domainName, code, message) ==
    [domainName |-> domainName, code |-> code, message |-> message]

Scenarios ==
    {Scenario(NullStr, 0, NullStr),
     Scenario(NullStr, 1, Str(<<109>>)),
     Scenario(Str(NameA), 1, Str(<<109>>)),
     Scenario(Str(NameB), 1, NullStr),
     Scenario(Str(<< >>), 1, Str(<<109>>)),
     Scenario(Str(ControlName), 1, Str(<<109>>)),
     Scenario(Str(LongName), 1, NullStr)}

AllocsOK ==
    [structOK |-> TRUE, msgOK |-> TRUE, mapOK |-> TRUE, itemsOK |-> TRUE,
     keyOK |-> TRUE, domainOK |-> TRUE, arrayOK |-> TRUE, ub |-> "returns",
     shift |-> "modulo"]

\* Every allocation succeeds, or all but one kind of them: those a call
\* on errors makes, those a call on info maps makes, and both.
ErrorAllocs ==
    {AllocsOK, [AllocsOK EXCEPT !.structOK = FALSE],
     [AllocsOK EXCEPT !.msgOK = FALSE]}

InfoAllocs ==
    {AllocsOK, [AllocsOK EXCEPT !.mapOK = FALSE],
     [AllocsOK EXCEPT !.itemsOK = FALSE],
     [AllocsOK EXCEPT !.keyOK = FALSE],
     [AllocsOK EXCEPT !.keyOK = FALSE, !.ub = "fault"]}

Allocs == ErrorAllocs \cup InfoAllocs

\* The allocations a call of RERR_Domain_Register makes
DomainAllocs ==
    {AllocsOK, [AllocsOK EXCEPT !.structOK = FALSE],
     [AllocsOK EXCEPT !.domainOK = FALSE],
     [AllocsOK EXCEPT !.arrayOK = FALSE],
     [AllocsOK EXCEPT !.itemsOK = FALSE]}

CauseArgs == {NullPtr, OomPtr} \cup {p \in ErrorPtrs : held.errors[p] > 0}

InfoArgs == {NullPtr, OomPtr} \cup {p \in InfoPtrs : held.infos[p] > 0}

\* The number of blocks handed out so far, freed or not.
Used(m) ==
    Cardinality({p \in ErrorPtrs : m.errors[p].state # "unused"})
    + Cardinality({p \in InfoPtrs : m.infos[p].state # "unused"})

\* The heap has room for n more blocks.
HasRoom(n) == Used(mem) + n <= HeapSize

TakeError(h, p) ==
    IF IsObject(p) THEN [h EXCEPT !.errors[p] = @ + 1] ELSE h

GiveError(h, p) ==
    IF IsObject(p) THEN [h EXCEPT !.errors[p] = @ - 1] ELSE h

TakeInfo(h, p) ==
    IF IsObject(p) THEN [h EXCEPT !.infos[p] = @ + 1] ELSE h

GiveInfo(h, p) ==
    IF IsObject(p) THEN [h EXCEPT !.infos[p] = @ - 1] ELSE h

RECURSIVE SumOver(_, _)
SumOver(f, S) ==
    IF S = {} THEN 0
    ELSE LET x == CHOOSE y \in S : TRUE IN f[x] + SumOver(f, S \ {x})

\* The number of references to error objects beyond the first of each
Shared(m) ==
    SumOver([p \in ErrorPtrs |->
                IF m.errors[p].state = "live" THEN m.errors[p].refCount - 1
                ELSE 0],
            ErrorPtrs)

\* The caller holds no handle.
NoHandles ==
    [errors |-> [p \in ErrorPtrs |-> 0], infos |-> [p \in InfoPtrs |-> 0]]

Called(op, cause, ret) == [op |-> op, cause |-> cause, ret |-> ret]

NoCall == Called("none", NullPtr, NullPtr)

ErrInit ==
    /\ RegIdle
    /\ ArrIdle
    /\ FmtIdle
    /\ PrbIdle
    /\ DcIdle
    /\ RcIdle
    /\ SrIdle
    /\ CfgIdle
    /\ mem = EmptyMem
    /\ domains = Domain_Insert(NoDomains,
                                Domain(NameA, RERR_CodeFormat_I32),
                                AllocsOK).doms
    /\ held = NoHandles
    /\ elast = [op |-> "none", cause |-> NullPtr, ret |-> NullPtr]
    /\ args \in Scenarios

ErrorCreate ==
    /\ ~mem.fault
    /\ HasRoom(1)
    /\ \E al \in ErrorAllocs :
          \E r \in {RERR_Error_Create(mem, args.message, al)} :
              /\ mem' = r.mem
              /\ held' = TakeError(held, r.ret)
              /\ elast' = NoCall
    /\ UNCHANGED <<domains, args, regVars, cfgVars, arrVars, fmtVars, prbVars,
            dcVars, rcVars, srVars>>

ErrorCreateWithCode ==
    /\ ~mem.fault
    /\ HasRoom(1)
    /\ \E al \in ErrorAllocs :
          \E r \in {RERR_Error_CreateWithCode(mem, domains, args.domainName,
                                               args.code, args.message, al)} :
              /\ mem' = r.mem
              /\ held' = TakeError(held, r.ret)
              /\ elast' = NoCall
    /\ UNCHANGED <<domains, args, regVars, cfgVars, arrVars, fmtVars, prbVars,
            dcVars, rcVars, srVars>>

ErrorCreateWithInfo ==
    /\ ~mem.fault
    /\ \E info \in InfoArgs, al \in Allocs :
          /\ HasRoom(1)
          /\ \E r \in {RERR_Error_CreateWithInfo(mem, domains,
                         args.domainName, args.code, info, args.message, al)} :
              /\ mem' = r.mem
              /\ held' = IF r.mem.fault THEN NoHandles
                          ELSE TakeError(GiveInfo(held, info), r.ret)
              /\ elast' = NoCall
    /\ UNCHANGED <<domains, args, regVars, cfgVars, arrVars, fmtVars, prbVars,
            dcVars, rcVars, srVars>>

ErrorWrap ==
    /\ ~mem.fault
    /\ HasRoom(1)
    /\ \E cause \in CauseArgs, al \in ErrorAllocs :
          \E r \in {RERR_Error_Wrap(mem, cause, args.message, al)} :
              /\ mem' = r.mem
              /\ held' = TakeError(GiveError(held, cause), r.ret)
              /\ elast' = Called("wrap", cause, r.ret)
    /\ UNCHANGED <<domains, args, regVars, cfgVars, arrVars, fmtVars, prbVars,
            dcVars, rcVars, srVars>>

ErrorWrapWithCode ==
    /\ ~mem.fault
    /\ HasRoom(1)
    /\ \E cause \in CauseArgs, al \in ErrorAllocs :
          \E r \in {RERR_Error_WrapWithCode(mem, domains, cause,
                         args.domainName, args.code, args.message, al)} :
              /\ mem' = r.mem
              /\ held' = TakeError(GiveError(held, cause), r.ret)
              /\ elast' = Called("wrapWithCode", cause, r.ret)
    /\ UNCHANGED <<domains, args, regVars, cfgVars, arrVars, fmtVars, prbVars,
            dcVars, rcVars, srVars>>

ErrorWrapWithInfo ==
    /\ ~mem.fault
    /\ \E cause \in CauseArgs, info \in InfoArgs, al \in Allocs :
          /\ HasRoom(1)
          /\ \E r \in {RERR_Error_WrapWithInfo(mem, domains, cause,
                         args.domainName, args.code, info, args.message, al)} :
              /\ mem' = r.mem
              /\ held' = IF r.mem.fault THEN NoHandles
                          ELSE TakeError(
                                   GiveInfo(GiveError(held, cause), info),
                                   r.ret)
              /\ elast' = Called("wrapWithInfo", cause, r.ret)
    /\ UNCHANGED <<domains, args, regVars, cfgVars, arrVars, fmtVars, prbVars,
            dcVars, rcVars, srVars>>

ErrorCopy ==
    /\ ~mem.fault
    /\ \E source \in CauseArgs :
          /\ Shared(mem) < MaxShared
          /\ \E r \in {RERR_Error_Copy(mem, source)} :
                 /\ mem' = r.mem
                 /\ held' = TakeError(held, r.ret)
                 /\ elast' = NoCall
    /\ UNCHANGED <<domains, args, regVars, cfgVars, arrVars, fmtVars, prbVars,
            dcVars, rcVars, srVars>>

ErrorDestroy ==
    /\ ~mem.fault
    /\ \E error \in CauseArgs :
          /\ mem' = RERR_Error_Destroy(mem, error)
          /\ held' = GiveError(held, error)
          /\ elast' = NoCall
    /\ UNCHANGED <<domains, args, regVars, cfgVars, arrVars, fmtVars, prbVars,
            dcVars, rcVars, srVars>>

InfoCreate ==
    /\ ~mem.fault
    /\ HasRoom(1)
    /\ \A p \in InfoPtrs : held.infos[p] = 0
    /\ \E al \in InfoAllocs :
          \E r \in {RERR_InfoMap_Create(mem, al)} :
              /\ mem' = r.mem
              /\ held' = TakeInfo(held, r.ret)
    /\ elast' = NoCall
    /\ UNCHANGED <<domains, args, regVars, cfgVars, arrVars, fmtVars, prbVars,
            dcVars, rcVars, srVars>>

InfoSetBool ==
    /\ ~mem.fault
    /\ \E imap \in InfoArgs, al \in InfoAllocs :
          /\ IsObject(imap) => ~mem.infos[imap].immutable
          /\ mem' = RERR_InfoMap_SetBool(mem, imap, Str(KeyK), TRUE, al)
    /\ elast' = NoCall
    /\ UNCHANGED <<held, domains, args, regVars, cfgVars, arrVars, fmtVars, prbVars,
            dcVars, rcVars, srVars>>

InfoMakeImmutable ==
    /\ ~mem.fault
    /\ \E imap \in InfoArgs : mem' = RERR_InfoMap_MakeImmutable(mem, imap)
    /\ elast' = NoCall
    /\ UNCHANGED <<held, domains, args, regVars, cfgVars, arrVars, fmtVars, prbVars,
            dcVars, rcVars, srVars>>

InfoDestroy ==
    /\ ~mem.fault
    /\ \E imap \in InfoArgs :
          /\ mem' = RERR_InfoMap_Destroy(mem, imap)
          /\ held' = GiveInfo(held, imap)
    /\ elast' = NoCall
    /\ UNCHANGED <<domains, args, regVars, cfgVars, arrVars, fmtVars, prbVars,
            dcVars, rcVars, srVars>>

ErrNext ==
    \/ ErrorCreate
    \/ ErrorCreateWithCode
    \/ ErrorCreateWithInfo
    \/ ErrorWrap
    \/ ErrorWrapWithCode
    \/ ErrorWrapWithInfo
    \/ ErrorCopy
    \/ ErrorDestroy
    \/ InfoCreate
    \/ InfoSetBool
    \/ InfoMakeImmutable
    \/ InfoDestroy

SpecError == ErrInit /\ [][ErrNext]_vars


-----------------------------------------------------------------------------
(* The domain registry: RERR_Domain_Register, RERR_Domain_UnregisterAll and
   the creation of errors with a code *)

\* The names and code formats the callers register
RegisterNames ==
    {NullStr, Str(<< >>), Str(NameA), Str(NameB), Str(ControlName),
     Str(RERR_DOMAIN_RICHERRORS)}

RegisterFormats == {RERR_CodeFormat_I32, RERR_CodeFormat_Hex16, 0}

DomInit ==
    /\ RegIdle
    /\ ArrIdle
    /\ FmtIdle
    /\ PrbIdle
    /\ DcIdle
    /\ RcIdle
    /\ SrIdle
    /\ CfgIdle
    /\ mem = EmptyMem
    /\ domains = NoDomains
    /\ held = NoHandles
    /\ elast = NoCall
    /\ args \in Scenarios

\* The caller destroys the error a call returned before the next call that
\* can return one.
NoneHeld == \A p \in ErrorPtrs : held.errors[p] = 0

DomainRegister ==
    /\ HasRoom(1)
    /\ NoneHeld
    /\ \E name \in RegisterNames, format \in RegisterFormats,
          al \in DomainAllocs :
          \E r \in {RERR_Domain_Register(mem, domains, name, format, al)} :
              /\ mem' = r.mem
              /\ domains' = r.doms
              /\ held' = TakeError(held, r.ret)
              /\ elast' = Called("register", NullPtr, r.ret)
    /\ UNCHANGED <<args, regVars, cfgVars, arrVars, fmtVars, prbVars, dcVars,
            rcVars, srVars>>

\* A call that finds no array leaves the lock held once more; MaxLeaked
\* bounds how often that is done.
DomainUnregisterAll ==
    /\ domains.alloc \/ domains.lock < MaxLeaked
    /\ domains' = RERR_Domain_UnregisterAll(domains)
    /\ elast' = Called("unregisterAll", NullPtr, NullPtr)
    /\ UNCHANGED <<mem, held, args, regVars, cfgVars, arrVars, fmtVars, prbVars,
            dcVars, rcVars, srVars>>

DomainCreateWithCode ==
    /\ HasRoom(1)
    /\ NoneHeld
    /\ \E al \in ErrorAllocs :
          \E r \in {RERR_Error_CreateWithCode(mem, domains, args.domainName,
                                               args.code, args.message, al)} :
              /\ mem' = r.mem
              /\ held' = TakeError(held, r.ret)
              /\ elast' = Called("createWithCode", NullPtr, r.ret)
    /\ UNCHANGED <<domains, args, regVars, cfgVars, arrVars, fmtVars, prbVars,
            dcVars, rcVars, srVars>>

DomNext ==
    \/ DomainRegister
    \/ DomainUnregisterAll
    \/ DomainCreateWithCode
    \/ ErrorDestroy

SpecDomain == DomInit /\ [][DomNext]_vars

-----------------------------------------------------------------------------
(* Info maps: the calls of InfoMap.h on maps that the caller holds *)

\* "v"
ValueV == <<118>>

\* What the caller passes to the set functions, and the misuse the caller
\* commits, if any: a null key or a null string value.
InfoScenario(key, type, value, misuse) ==
    [key |-> key, type |-> type, value |-> value, misuse |-> misuse]

InfoScenarios ==
    {InfoScenario(Str(KeyK), "Bool", TRUE, "none"),
     InfoScenario(Str(KeyK), "String", Str(ValueV), "nullValue"),
     InfoScenario(Str(KeyK), "I64", 1, "nullKey")}

\* The call of the set function for the type
SetTyped(m, imap, key, type, value, al) ==
    CASE type = "String" -> RERR_InfoMap_SetString(m, imap, key, value, al)
      [] type = "Bool" -> RERR_InfoMap_SetBool(m, imap, key, value, al)
      [] type = "I64" -> RERR_InfoMap_SetI64(m, imap, key, value, al)
      [] type = "U64" -> RERR_InfoMap_SetU64(m, imap, key, value, al)
      [] type = "F64" -> RERR_InfoMap_SetF64(m, imap, key, value, al)

\* The maps the caller holds
HeldMaps == {p \in InfoPtrs : held.infos[p] > 0}

\* The caller works with one map and a copy of it.
HoldsOne == Cardinality(HeldMaps) <= 1

\* The allocations a set call makes
SetAllocs ==
    {AllocsOK, [AllocsOK EXCEPT !.msgOK = FALSE],
     [AllocsOK EXCEPT !.keyOK = FALSE], [AllocsOK EXCEPT !.itemsOK = FALSE]}

\* The allocations a copy makes
CopyAllocs ==
    {AllocsOK, [AllocsOK EXCEPT !.mapOK = FALSE],
     [AllocsOK EXCEPT !.itemsOK = FALSE], [AllocsOK EXCEPT !.keyOK = FALSE],
     [AllocsOK EXCEPT !.keyOK = FALSE, !.ub = "fault"]}

MapInit ==
    /\ RegIdle
    /\ ArrIdle
    /\ FmtIdle
    /\ PrbIdle
    /\ DcIdle
    /\ RcIdle
    /\ SrIdle
    /\ CfgIdle
    /\ mem = EmptyMem
    /\ domains = NoDomains
    /\ held = NoHandles
    /\ elast = NoCall
    /\ args \in InfoScenarios

MapCreate ==
    /\ ~mem.fault
    /\ HasRoom(1)
    /\ HeldMaps = {}
    /\ \E al \in {AllocsOK, [AllocsOK EXCEPT !.mapOK = FALSE]} :
          \E r \in {RERR_InfoMap_Create(mem, al)} :
              /\ mem' = r.mem
              /\ held' = TakeInfo(held, r.ret)
    /\ UNCHANGED <<elast, domains, args, regVars, cfgVars, arrVars, fmtVars, prbVars,
            dcVars, rcVars, srVars>>

MapSet ==
    /\ ~mem.fault
    /\ \E imap \in HeldMaps, al \in SetAllocs :
          mem' = SetTyped(mem, imap, args.key, args.type, args.value, al)
    /\ UNCHANGED <<held, elast, domains, args, regVars, cfgVars, arrVars, fmtVars, prbVars,
            dcVars, rcVars, srVars>>

\* A set call with a null key, or RERR_InfoMap_SetString with a null value
MapMisuse ==
    /\ ~mem.fault
    /\ args.misuse # "none"
    /\ \E imap \in HeldMaps :
          mem' = IF args.misuse = "nullKey"
                 THEN SetTyped(mem, imap, NullStr, args.type, args.value,
                               AllocsOK)
                 ELSE RERR_InfoMap_SetString(mem, imap, args.key, NullStr,
                                             AllocsOK)
    /\ UNCHANGED <<held, elast, domains, args, regVars, cfgVars, arrVars, fmtVars, prbVars,
            dcVars, rcVars, srVars>>

MapRemove ==
    /\ ~mem.fault
    /\ \E imap \in HeldMaps, al \in {AllocsOK} :
          mem' = RERR_InfoMap_Remove(mem, imap, args.key, al)
    /\ UNCHANGED <<held, elast, domains, args, regVars, cfgVars, arrVars, fmtVars, prbVars,
            dcVars, rcVars, srVars>>

MapClear ==
    /\ ~mem.fault
    /\ \E imap \in HeldMaps, al \in {AllocsOK} :
          mem' = RERR_InfoMap_Clear(mem, imap, al)
    /\ UNCHANGED <<held, elast, domains, args, regVars, cfgVars, arrVars, fmtVars, prbVars,
            dcVars, rcVars, srVars>>

MapReserveCapacity ==
    /\ ~mem.fault
    /\ \E imap \in HeldMaps, al \in {AllocsOK} :
          mem' = RERR_InfoMap_ReserveCapacity(mem, imap, 1, al)
    /\ UNCHANGED <<held, elast, domains, args, regVars, cfgVars, arrVars, fmtVars, prbVars,
            dcVars, rcVars, srVars>>

MapMakeImmutable ==
    /\ ~mem.fault
    /\ \E imap \in HeldMaps : mem' = RERR_InfoMap_MakeImmutable(mem, imap)
    /\ UNCHANGED <<held, elast, domains, args, regVars, cfgVars, arrVars, fmtVars, prbVars,
            dcVars, rcVars, srVars>>

MapMakeOutOfMemory ==
    /\ ~mem.fault
    /\ \E imap \in HeldMaps : mem' = RERR_InfoMap_MakeOutOfMemory(mem, imap)
    /\ UNCHANGED <<held, elast, domains, args, regVars, cfgVars, arrVars, fmtVars, prbVars,
            dcVars, rcVars, srVars>>

\* What a call that returns a copy leaves behind: a fault ends the process.
Copied(op, source, r) ==
    /\ mem' = r.mem
    /\ held' = IF r.mem.fault THEN NoHandles ELSE TakeInfo(held, r.ret)
    /\ elast' = IF r.mem.fault THEN NoCall ELSE Called(op, source, r.ret)

MapCopy ==
    /\ ~mem.fault
    /\ HasRoom(1)
    /\ HoldsOne
    /\ \E source \in HeldMaps, al \in CopyAllocs :
          /\ held.infos[source] <= MaxShared
          /\ \E r \in {RERR_InfoMap_Copy(mem, source, al)} :
                 Copied("copy", source, r)
    /\ UNCHANGED <<domains, args, regVars, cfgVars, arrVars, fmtVars, prbVars,
            dcVars, rcVars, srVars>>

MapMutableCopy ==
    /\ ~mem.fault
    /\ HasRoom(1)
    /\ HoldsOne
    /\ \E source \in HeldMaps, al \in CopyAllocs :
          \E r \in {RERR_InfoMap_MutableCopy(mem, source, al)} :
              Copied("mutableCopy", source, r)
    /\ UNCHANGED <<domains, args, regVars, cfgVars, arrVars, fmtVars, prbVars,
            dcVars, rcVars, srVars>>

MapImmutableCopy ==
    /\ ~mem.fault
    /\ HasRoom(1)
    /\ HoldsOne
    /\ \E source \in HeldMaps, al \in CopyAllocs :
          /\ held.infos[source] <= MaxShared
          /\ \E r \in {RERR_InfoMap_ImmutableCopy(mem, source, al)} :
                 Copied("immutableCopy", source, r)
    /\ UNCHANGED <<domains, args, regVars, cfgVars, arrVars, fmtVars, prbVars,
            dcVars, rcVars, srVars>>

MapDestroy ==
    /\ ~mem.fault
    /\ \E imap \in HeldMaps :
          /\ mem' = RERR_InfoMap_Destroy(mem, imap)
          /\ held' = GiveInfo(held, imap)
    /\ UNCHANGED <<elast, domains, args, regVars, cfgVars, arrVars, fmtVars, prbVars,
            dcVars, rcVars, srVars>>

MapNext ==
    \/ MapCreate
    \/ MapSet
    \/ MapMisuse
    \/ MapRemove
    \/ MapClear
    \/ MapReserveCapacity
    \/ MapMakeImmutable
    \/ MapMakeOutOfMemory
    \/ MapCopy
    \/ MapMutableCopy
    \/ MapImmutableCopy
    \/ MapDestroy

SpecInfo == MapInit /\ [][MapNext]_vars

-----------------------------------------------------------------------------
(* Properties of wrapping *)

\* One reference to the error p was given up between the two memories.
ReleasedOnce(before, after, p) ==
    IF before.errors[p].refCount = 1
    THEN after.errors[p].state = "freed"
    ELSE /\ after.errors[p].state = "live"
         /\ after.errors[p].refCount = before.errors[p].refCount - 1

\* C9: a call of wrap(cause, msg) that creates the wrapper makes a new
\* object whose cause is the very pointer passed, leaves every other object
\* (the cause and its refcount included) as it was, and destroying the
\* wrapper then releases the cause; a call that returns the out-of-memory
\* value has released the cause.
C9_WrapConsumesCause ==
    [][elast'.op = "wrap" =>
          IF elast'.ret # OomPtr
          THEN /\ mem.errors[elast'.ret].state = "unused"
               /\ mem'.errors[elast'.ret].state = "live"
               /\ RERR_Error_GetCause(mem', elast'.ret) = elast'.cause
               /\ RERR_Error_HasCause(mem', elast'.ret)
                     = (elast'.cause # NullPtr)
               /\ \A p \in ErrorPtrs \ {elast'.ret} :
                     mem'.errors[p] = mem.errors[p]
               /\ mem'.infos = mem.infos
               /\ LET after == RERR_Error_Destroy(mem', elast'.ret)
                  IN  /\ after.errors[elast'.ret].state = "freed"
                      /\ IsObject(elast'.cause) =>
                            ReleasedOnce(mem, after, elast'.cause)
          ELSE IsObject(elast'.cause) =>
                  ReleasedOnce(mem, mem', elast'.cause)]_vars

\* C9 witness: wrap has returned a wrapper around a cause that the caller
\* had copied before, so that the cause has refcount 2.
C9_Witness ==
    /\ elast.op = "wrap"
    /\ IsObject(elast.ret) /\ IsObject(elast.cause)
    /\ mem.errors[elast.ret].cause = elast.cause
    /\ mem.errors[elast.cause].refCount = 2
    /\ held.errors[elast.cause] = 1

\* Every error that a live error holds as its cause is live.
CausesAlive ==
    \A p \in ErrorPtrs :
        (mem.errors[p].state = "live" /\ IsObject(mem.errors[p].cause))
            => mem.errors[mem.errors[p].cause].state = "live"

\* C10: every call of wrapWithCode or wrapWithInfo returns; one that returns
\* the out-of-memory value has released the cause; any other call returns a live
\* error, the requested one or one made in its place, whose cause is the
\* pointer passed, and leaves the cause as it was; and no live error ever
\* has a freed cause.
C10_WrapWithCodeConsumesCause ==
    /\ []CausesAlive
    /\ [][elast'.op \in {"wrapWithCode", "wrapWithInfo"} =>
             IF mem'.fault THEN FALSE
             ELSE IF elast'.ret = OomPtr
             THEN IsObject(elast'.cause) =>
                     ReleasedOnce(mem, mem', elast'.cause)
             ELSE /\ mem.errors[elast'.ret].state = "unused"
                  /\ mem'.errors[elast'.ret].state = "live"
                  /\ RERR_Error_GetCause(mem', elast'.ret) = elast'.cause
                  /\ \A p \in ErrorPtrs \ {elast'.ret} :
                        mem'.errors[p] = mem.errors[p]]_vars

\* C10 witness: wrapWithCode was called with a domain name that is not
\* accepted and has returned the error made in place of the requested one,
\* with the caller's error as its cause.
C10_Witness ==
    /\ elast.op = "wrapWithCode"
    /\ IsObject(elast.ret) /\ IsObject(elast.cause)
    /\ mem.errors[elast.ret].domain = RichErrorsDomain
    /\ mem.errors[elast.ret].code # args.code
    /\ mem.errors[elast.ret].cause = elast.cause
    /\ mem.errors[elast.cause].state = "live"

-----------------------------------------------------------------------------
(* Properties of reference counting *)

\* The live errors that hold the info map p.
InfoHolders(m, p) ==
    {q \in ErrorPtrs : m.errors[q].state = "live" /\ m.errors[q].info = p}

\* C11: an info map attached to an error is released when the error is
\* freed: every live info map is still held by the caller or attached to a
\* live error, and its refcount is the number of these holders.
C11_DestroyReleasesInfo ==
    \A p \in InfoPtrs :
        mem.infos[p].state = "live" =>
            /\ held.infos[p] + Cardinality(InfoHolders(mem, p)) > 0
            /\ mem.infos[p].refCount
                  = held.infos[p] + Cardinality(InfoHolders(mem, p))

\* The live errors that hold the error p as their cause.
Wrappers(m, p) ==
    {q \in ErrorPtrs : m.errors[q].state = "live" /\ m.errors[q].cause = p}

\* The owners of the error p: the caller's handles and the live wrappers.
Owners(p) == held.errors[p] + Cardinality(Wrappers(mem, p))

\* C12: the refcount of every error is the number of its owners and the
\* error is live exactly while it has one; copy returns the same pointer
\* and adds one to the refcount, changing nothing else; destroy frees the
\* error exactly when the last owner gives it up; and a cause the caller
\* also holds stays live when its wrapper is destroyed.
C12_RefcountCountsOwners ==
    /\ \A p \in ErrorPtrs :
          /\ (mem.errors[p].state = "live") = (Owners(p) > 0)
          /\ mem.errors[p].state = "live" =>
                /\ mem.errors[p].refCount = Owners(p)
                /\ mem.errors[p].refCount >= 1
    /\ \A p \in ErrorPtrs :
          held.errors[p] > 0 =>
             LET c == RERR_Error_Copy(mem, p)
                 d == RERR_Error_Destroy(mem, p)
                 cause == mem.errors[p].cause
             IN  /\ c.ret = p
                 /\ c.mem = [mem EXCEPT !.errors[p].refCount = @ + 1]
                 /\ (d.errors[p].state = "freed") = (Owners(p) = 1)
                 /\ Owners(p) > 1 =>
                       d = [mem EXCEPT !.errors[p].refCount = @ - 1]
                 /\ (IsObject(cause) /\ held.errors[cause] > 0) =>
                       d.errors[cause].state = "live"
                 /\ RERR_Error_Destroy(c.mem, p) = mem

\* C12 witness: the caller holds a wrapper and, through a copy, its cause,
\* so that the cause has refcount 2 and survives the wrapper.
C12_Witness ==
    \E w \in ErrorPtrs :
        /\ held.errors[w] = 1 /\ mem.errors[w].refCount = 1
        /\ IsObject(mem.errors[w].cause)
        /\ held.errors[mem.errors[w].cause] = 1
        /\ mem.errors[mem.errors[w].cause].refCount = 2
        /\ RERR_Error_Destroy(mem, w).errors[mem.errors[w].cause].refCount = 1


-----------------------------------------------------------------------------
(* Properties of errors with info *)

\* The result is an error made with exactly this domain and code.
IsRequested(m, error, domainName, code) ==
    /\ IsObject(error)
    /\ ~domainName.null
    /\ ~m.errors[error].domain.null
    /\ m.errors[error].domain.name = domainName.chars
    /\ m.errors[error].code = code

\* C13: every call of createWithInfo returns and has released the caller's
\* reference to info exactly once; the result has info only if it is an
\* error with exactly the requested domain and code and info was not empty,
\* and the info it has is then immutable and has the items of info; the
\* out-of-memory value, an error made in place of the requested one, a null
\* domain and an empty, null or out-of-memory info give a result without
\* info.
C13_CreateWithInfoConsumesInfo ==
    (~mem.fault /\ HasRoom(1)) =>
        \A info \in InfoArgs, al \in Allocs :
            LET r == RERR_Error_CreateWithInfo(mem, domains, args.domainName,
                                               args.code, info, args.message,
                                               al)
                attached == IF IsObject(r.ret) THEN r.mem.errors[r.ret].info
                            ELSE NullPtr
                left == mem.infos[info].refCount - 1
                           + (IF attached = info THEN 1 ELSE 0)
            IN  /\ ~r.mem.fault
                /\ IsObject(info) =>
                      IF left = 0 THEN r.mem.infos[info].state = "freed"
                      ELSE /\ r.mem.infos[info].state = "live"
                           /\ r.mem.infos[info].refCount = left
                /\ RERR_Error_HasInfo(r.mem, r.ret) =>
                      /\ IsRequested(r.mem, r.ret, args.domainName, args.code)
                      /\ ~RERR_InfoMap_IsEmpty(mem, info)
                      /\ r.mem.infos[attached].immutable
                      /\ r.mem.infos[attached].items = mem.infos[info].items
                /\ (\/ ~IsRequested(r.mem, r.ret, args.domainName, args.code)
                    \/ RERR_InfoMap_IsEmpty(mem, info))
                      => ~RERR_Error_HasInfo(r.mem, r.ret)

-----------------------------------------------------------------------------
(* Properties of the sentinels *)

\* What destroy, copy and the accessors other than getInfo do with the
\* sentinel s in the memory m.
SentinelDefaults(m, s) ==
    /\ RERR_Error_Destroy(m, s) = m
    /\ RERR_Error_Copy(m, s) = [mem |-> m, ret |-> s]
    /\ RERR_Error_HasCode(m, s) = (s = OomPtr)
    /\ RERR_Error_GetDomain(m, s)
          = (IF s = OomPtr THEN RERR_DOMAIN_CRITICAL ELSE << >>)
    /\ RERR_Error_GetCode(m, s)
          = (IF s = OomPtr THEN RERR_ECODE_OUT_OF_MEMORY ELSE 0)
    /\ RERR_Error_GetMessage(m, s)
          = (IF s = OomPtr THEN MsgOutOfMemory ELSE MsgNoError)
    /\ ~RERR_Error_HasCause(m, s)
    /\ RERR_Error_GetCause(m, s) = NullPtr
    /\ ~RERR_Error_HasInfo(m, s)
    /\ RERR_Error_IsOutOfMemoryPtr(s) = (s = OomPtr)

\* C14, as the specification words it: on a sentinel, destroy is a no-op,
\* copy yields the same sentinel and every accessor, getInfo included,
\* returns its fixed default and leaves the memory as it was.
C14_SentinelsNeedNoStorageOriginal ==
    (~mem.fault /\ HasRoom(1)) =>
        \A s \in {NullPtr, OomPtr} :
            /\ SentinelDefaults(mem, s)
            /\ \A al \in Allocs : RERR_Error_GetInfo(mem, s, al).mem = mem

\* C14: on a sentinel, destroy is a no-op, copy yields the same sentinel
\* and hasCode, domain, code, message, hasCause, cause, hasInfo and
\* isOutOfMemory return their fixed defaults (they have no effect); getInfo
\* allocates: it returns a new empty immutable map with one reference, and
\* changes nothing else, or the out-of-memory map value, with the memory
\* unchanged, when that allocation fails.
C14_SentinelsNeedNoStorage ==
    (~mem.fault /\ HasRoom(1)) =>
        \A s \in {NullPtr, OomPtr} :
            /\ SentinelDefaults(mem, s)
            /\ \A al \in Allocs :
                  LET g == RERR_Error_GetInfo(mem, s, al)
                  IN  IF al.mapOK
                      THEN /\ IsObject(g.ret)
                           /\ mem.infos[g.ret].state = "unused"
                           /\ g.mem = [mem EXCEPT !.infos[g.ret] =
                                         [FreshInfo EXCEPT
                                             !.state = "live",
                                             !.immutable = TRUE,
                                             !.refCount = 1]]
                      ELSE g = [mem |-> mem, ret |-> OomPtr]

\* C14 witness: wrap has returned the out-of-memory sentinel while another
\* error is live, and getInfo on the sentinel returns a new map.
C14_Witness ==
    /\ elast.op = "wrap" /\ elast.ret = OomPtr
    /\ ~mem.fault /\ HasRoom(1)
    /\ \E p \in ErrorPtrs : mem.errors[p].state = "live"
    /\ RERR_Error_HasCode(mem, elast.ret)
    /\ IsObject(RERR_Error_GetInfo(mem, elast.ret, AllocsOK).ret)

-----------------------------------------------------------------------------
(* Properties of the domain registry *)

\* The names of the registered domains
RegisteredNames(doms) == {doms.elems[i].name : i \in 1..Len(doms.elems)}

\* 63 bytes, and 64 bytes of which one is a control character
Name63 == [i \in 1..MAX_DOMAIN_LENGTH |-> 65]

LongControlName == [i \in 1..(MAX_DOMAIN_LENGTH + 1) |-> IF i = 1 THEN 7 ELSE 65]

\* Names on both sides of every limit of Domain_Check
CheckNames ==
    {<< >>, NameA, NameB, <<32>>, <<126>>, <<31>>, <<127>>, <<65, 200>>,
     ControlName, Name63, LongName, LongControlName,
     RERR_DOMAIN_CRITICAL, RERR_DOMAIN_RICHERRORS}

\* Two code formats that CodeFormat_Check accepts and two that it rejects
CheckFormats ==
    {RERR_CodeFormat_I32, RERR_CodeFormat_U16 + RERR_CodeFormat_Hex16, 0,
     RERR_CodeFormat_I32 + RERR_CodeFormat_U32}

WellFormed(name) ==
    /\ Len(name) >= 1
    /\ Len(name) <= 63
    /\ \A i \in 1..Len(name) : name[i] >= 32 /\ name[i] <= 126

\* The error is one of the RichErrors domain with this code.
IsRichError(m, error, code) ==
    /\ IsObject(error)
    /\ m.errors[error].state = "live"
    /\ RERR_Error_GetDomain(m, error) = RERR_DOMAIN_RICHERRORS
    /\ RERR_Error_GetCode(m, error) = code

\* C15: in every state of the registry, createWithCode with a null domain
\* and a non-zero code returns a NullArgument error, with a well-formed
\* name that is not registered a DomainNotRegistered error, both of the
\* RichErrors domain, and with a null domain and code 0 what create(message)
\* returns, an error without a code; no createWithCode step changes the
\* registry.
C15_NoImplicitRegistration ==
    /\ [](HasRoom(1) =>
            /\ \A code \in {1, -1, MaxCode} :
                  LET r == RERR_Error_CreateWithCode(mem, domains, NullStr,
                               code, args.message, AllocsOK)
                  IN  IsRichError(r.mem, r.ret, RERR_ECODE_NULL_ARGUMENT)
            /\ LET r == RERR_Error_CreateWithCode(mem, domains, NullStr, 0,
                            args.message, AllocsOK)
               IN  /\ r = RERR_Error_Create(mem, args.message, AllocsOK)
                   /\ IsObject(r.ret)
                   /\ ~RERR_Error_HasCode(r.mem, r.ret)
            /\ \A name \in CheckNames, code \in {0, 1} :
                  (/\ WellFormed(name)
                   /\ name \notin RegisteredNames(domains)
                   /\ name \notin {RERR_DOMAIN_CRITICAL,
                                   RERR_DOMAIN_RICHERRORS})
                  => LET r == RERR_Error_CreateWithCode(mem, domains,
                                  Str(name), code, args.message, AllocsOK)
                     IN  IsRichError(r.mem, r.ret,
                                     RERR_ECODE_DOMAIN_NOT_REGISTERED))
    /\ [][elast'.op = "createWithCode" => domains' = domains]_vars

\* C15 witness: createWithCode with a well-formed name has returned a
\* DomainNotRegistered error to the caller while the array of domains
\* exists and does not hold that name.
C15_Witness ==
    /\ ~args.domainName.null
    /\ args.domainName.chars \notin RegisteredNames(domains)
    /\ elast.op = "createWithCode"
    /\ IsObject(elast.ret)
    /\ held.errors[elast.ret] = 1
    /\ IsRichError(mem, elast.ret, RERR_ECODE_DOMAIN_NOT_REGISTERED)
    /\ domains.alloc

\* The code of the error with which register rejects the name
RejectionCode(name) ==
    IF Len(name) = 0 THEN RERR_ECODE_DOMAIN_NAME_EMPTY
    ELSE IF Len(name) > 63 THEN RERR_ECODE_DOMAIN_NAME_TOO_LONG
    ELSE IF ~WellFormed(name) THEN RERR_ECODE_DOMAIN_NAME_INVALID
    ELSE RERR_ECODE_DOMAIN_ALREADY_EXISTS

\* C16: in every state of the registry, after unregister-all as well,
\* register with a valid code format and no allocation failure accepts a
\* name iff it has 1 to 63 bytes, all from ' ' to '~', and is neither
\* registered nor the name of a built-in domain; it then adds exactly that
\* name.  Otherwise it returns an error of the RichErrors domain:
\* DomainNameEmpty for the empty name, else DomainNameTooLong for a name of
\* more than 63 bytes, else DomainNameInvalid for a name with another byte,
\* else DomainAlreadyExists.  Every register that returns an error,
\* whatever the format and whichever allocation fails, leaves the set of
\* registered names as it was.
C16_RegisterValidatesName ==
    HasRoom(1) =>
        \A name \in CheckNames :
            /\ \A format \in CheckFormats \cap ValidCodeFormats :
                  LET r == RERR_Domain_Register(mem, domains, Str(name),
                                                format, AllocsOK)
                      ok == /\ WellFormed(name)
                            /\ name \notin RegisteredNames(domains)
                            /\ name \notin {RERR_DOMAIN_CRITICAL,
                                            RERR_DOMAIN_RICHERRORS}
                  IN  /\ (r.ret = NullPtr) = ok
                      /\ ok => /\ r.mem = mem
                               /\ RegisteredNames(r.doms)
                                     = RegisteredNames(domains) \cup {name}
                               /\ Domain_Find(r.doms, name)
                                     = Domain(name, format)
                      /\ ~ok => IsRichError(r.mem, r.ret, RejectionCode(name))
            /\ \A format \in CheckFormats, al \in DomainAllocs :
                  LET r == RERR_Domain_Register(mem, domains, Str(name),
                                                format, al)
                  IN  r.ret # NullPtr =>
                         RegisteredNames(r.doms) = RegisteredNames(domains)

\* C16 witness: a register call has been rejected with DomainAlreadyExists
\* although no domain is registered (the name is that of a built-in
\* domain); the array exists and is empty, as it is after a register call
\* whose insertion failed.
C16_Witness ==
    /\ elast.op = "register"
    /\ IsRichError(mem, elast.ret, RERR_ECODE_DOMAIN_ALREADY_EXISTS)
    /\ domains.alloc
    /\ domains.elems = << >>

-----------------------------------------------------------------------------
(* Properties of info maps *)

\* "j"
KeyJ == <<106>>

InfoValueTypes == {"String", "Bool", "I64", "U64", "F64"}

\* Keys and values that the properties pass: null, present and absent keys
CheckKeys == {NullStr, Str(KeyK), Str(KeyJ)}

CheckValues(type) ==
    CASE type = "String" -> {NullStr, Str(ValueV), Str(<< >>)}
      [] type = "Bool" -> {TRUE, FALSE}
      [] OTHER -> {0, 1}

\* The memories that the set functions can leave when called on the map p
\* with one of the keys
SetResults(m, p, keys) ==
    UNION {{SetTyped(m, p, key, type, value, al) :
               key \in keys, value \in CheckValues(type), al \in SetAllocs} :
           type \in InfoValueTypes}

\* The memories that set, remove and clear can leave when called on p
MutatorResults(m, p) ==
    SetResults(m, p, CheckKeys)
    \cup {RERR_InfoMap_Remove(m, p, key, AllocsOK) : key \in CheckKeys}
    \cup {RERR_InfoMap_Clear(m, p, AllocsOK)}

\* r is what a copy of the map p returned in the memory m: a new mutable
\* map with one reference and the items of p, or, for a map without items
\* in out-of-memory mode, the out-of-memory map value; p is as it was, and
\* no set, remove or clear on one of the two changes the other.
IndependentCopy(m, p, r) ==
    IF r.ret = OomPtr THEN m.infos[p].oom /\ r.mem = m
    ELSE /\ IsObject(r.ret)
         /\ r.ret # p
         /\ m.infos[r.ret].state = "unused"
         /\ r.mem.infos[r.ret].state = "live"
         /\ r.mem.infos[r.ret].refCount = 1
         /\ ~r.mem.infos[r.ret].immutable
         /\ r.mem.infos[r.ret].items = m.infos[p].items
         /\ \A q \in InfoPtrs \ {r.ret} : r.mem.infos[q] = m.infos[q]
         /\ \A after \in MutatorResults(r.mem, r.ret) :
               after.infos[p] = m.infos[p]
         /\ \A after \in MutatorResults(r.mem, p) :
               after.infos[r.ret] = r.mem.infos[r.ret]

\* C17: copy of an immutable map returns the same map with one more
\* reference, still immutable; copy of a mutable map and mutableCopy of any
\* map return (no allocation failing) an independent map with equal
\* contents, on which no later set, remove or clear changes the original,
\* and conversely.
C17_CopyIndependent ==
    (~mem.fault /\ HasRoom(1)) =>
        \A p \in HeldMaps :
            LET c == RERR_InfoMap_Copy(mem, p, AllocsOK)
                mc == RERR_InfoMap_MutableCopy(mem, p, AllocsOK)
            IN  /\ ~c.mem.fault
                /\ ~mc.mem.fault
                /\ mem.infos[p].immutable =>
                      /\ c.ret = p
                      /\ c.mem = [mem EXCEPT !.infos[p].refCount = @ + 1]
                      /\ c.mem.infos[p].immutable
                /\ ~mem.infos[p].immutable => IndependentCopy(mem, p, c)
                /\ IndependentCopy(mem, p, mc)

\* What a map holds: its items with their keys, value types and values,
\* its size, and whether it is immutable and in out-of-memory mode
Contents(m, p) ==
    [items |-> m.infos[p].items,
     size |-> RERR_InfoMap_GetSize(m, p),
     mutable |-> RERR_InfoMap_IsMutable(m, p),
     oom |-> RERR_InfoMap_IsOutOfMemory(m, p)]

\* The memories that set, remove, clear, reserve and makeOutOfMemory can
\* leave when called on p
ChangeResults(m, p) ==
    MutatorResults(m, p)
    \cup {RERR_InfoMap_ReserveCapacity(m, p, capacity, al) :
             capacity \in 0..2, al \in SetAllocs}
    \cup {RERR_InfoMap_MakeOutOfMemory(m, p)}

\* C18: makeImmutable on an immutable map changes nothing; a map that is
\* immutable stays immutable for as long as it lives, with the same items;
\* every set, remove, clear, reserve and makeOutOfMemory on an immutable
\* map returns and leaves its items, its size and its mode as they were.
C18_ImmutableIsFinal ==
    /\ [](~mem.fault =>
            \A p \in HeldMaps :
               LET made == RERR_InfoMap_MakeImmutable(mem, p)
               IN  /\ ~RERR_InfoMap_IsMutable(made, p)
                   /\ made.infos[p].items = mem.infos[p].items
                   /\ RERR_InfoMap_MakeImmutable(made, p) = made
                   /\ \A after \in ChangeResults(made, p) :
                         /\ ~after.fault
                         /\ Contents(after, p) = Contents(made, p))
    /\ [][\A p \in InfoPtrs :
             (/\ mem.infos[p].state = "live"
              /\ mem.infos[p].immutable
              /\ mem'.infos[p].state = "live")
             => Contents(mem', p) = Contents(mem, p)]_vars

\* A set, remove or clear was attempted on an immutable map with an item:
\* the attempt is recorded and the item is still there.
C18_Witness ==
    \E p \in HeldMaps :
        /\ mem.infos[p].immutable
        /\ mem.infos[p].mutated
        /\ mem.infos[p].items # << >>

-----------------------------------------------------------------------------
(* Properties of the out-of-memory mode *)

\* The value that a get function stores when it finds nothing
NoValue(type) ==
    CASE type = "String" -> "NULL"
      [] type = "F64" -> "NaN"
      [] type = "Bool" -> FALSE
      [] OTHER -> 0

\* Every read of the map p sees no item.
ReadsEmpty(m, p) ==
    /\ RERR_InfoMap_GetSize(m, p) = 0
    /\ RERR_InfoMap_IsEmpty(m, p)
    /\ \A key \in CheckKeys :
          /\ ~RERR_InfoMap_HasKey(m, p, key)
          /\ RERR_InfoMap_GetType(m, p, key) = "Invalid"
          /\ \A type \in InfoValueTypes :
                ~GetTyped(m, p, key, type, NoValue(type)).ok

\* The set call on the mutable map p, with a key and a value that are not
\* null, makes an allocation that fails: the copy of a string value, the
\* copy of a key that the map does not have, or the growth of a full item
\* array for such a key.
AllocationFails(m, p, key, type, al) ==
    \/ type = "String" /\ ~al.msgOK
    \/ /\ ~RERR_InfoMap_HasKey(m, p, key)
       /\ \/ ~al.keyOK
          \/ ~al.itemsOK /\ m.infos[p].capacity = Len(m.infos[p].items)

\* A set call on a mutable map that is not in out-of-memory mode either
\* stores the value or, when an allocation fails, drops every item and
\* sets the out-of-memory flag.
SwitchesOnFailure(m, p) ==
    (~m.infos[p].immutable /\ ~m.infos[p].oom) =>
        \A key \in CheckKeys \ {NullStr}, type \in InfoValueTypes,
           al \in SetAllocs :
            \A value \in {v \in CheckValues(type) :
                              type # "String" \/ ~v.null} :
                LET after == SetTyped(m, p, key, type, value, al)
                    got == GetTyped(after, p, key, type, NoValue(type))
                IN  IF AllocationFails(m, p, key, type, al)
                    THEN /\ RERR_InfoMap_IsOutOfMemory(after, p)
                         /\ after.infos[p].items = << >>
                         /\ ReadsEmpty(after, p)
                    ELSE /\ ~RERR_InfoMap_IsOutOfMemory(after, p)
                         /\ got.ok
                         /\ got.value =
                               (IF type = "String" THEN value.chars ELSE value)

\* A live map in out-of-memory mode stays in it, without items.
OomIsAbsorbing ==
    \A p \in InfoPtrs :
        (/\ mem.infos[p].state = "live"
         /\ mem.infos[p].oom
         /\ mem'.infos[p].state = "live")
        => mem'.infos[p].oom /\ mem'.infos[p].items = << >>

\* The map p without the record of misuse
WithoutErrors(m, p) ==
    [m.infos[p] EXCEPT !.mutated = FALSE, !.nullKey = FALSE,
                       !.nullValue = FALSE]

-----------------------------------------------------------------------------
(* Properties of the record of misuse *)

\* The flags FLAG_ERROR_* of the map p
ErrorFlags(m, p) ==
    [mutated |-> m.infos[p].mutated,
     nullKey |-> m.infos[p].nullKey,
     nullValue |-> m.infos[p].nullValue]

\* after is the memory m in which the call on p has done nothing but set
\* the flag.
OnlyRecords(m, p, after, flag) ==
    /\ ~after.fault
    /\ after = [m EXCEPT !.infos[p] = after.infos[p]]
    /\ WithoutErrors(after, p) = WithoutErrors(m, p)
    /\ ErrorFlags(after, p) = [ErrorFlags(m, p) EXCEPT ![flag] = TRUE]

\* after is the memory m in which the call on p has set the flag and left
\* the items as they were.
Records(m, p, after, flag) ==
    /\ ~after.fault
    /\ ErrorFlags(after, p)[flag]
    /\ after.infos[p].items = m.infos[p].items

\* No flag of a live map is cleared.
FlagsAreSticky ==
    \A p \in InfoPtrs :
        (mem.infos[p].state = "live" /\ mem'.infos[p].state = "live") =>
            \A flag \in {"mutated", "nullKey", "nullValue"} :
                ErrorFlags(mem, p)[flag] => ErrorFlags(mem', p)[flag]

\* hasProgrammingErrors is true iff one of the three flags is set.
ReportsFlags(m, p) ==
    RERR_InfoMap_HasProgrammingErrors(m, p).ret
    <=> (\E flag \in {"mutated", "nullKey", "nullValue"} :
            ErrorFlags(m, p)[flag])

\* The memories that the set functions leave when called on p with the
\* key and one of the values
SetWith(m, p, key, values) ==
    UNION {{SetTyped(m, p, key, type, value, al) :
               value \in {v \in CheckValues(type) :
                             IF type = "String" THEN v \in values
                             ELSE TRUE},
               al \in SetAllocs} :
           type \in InfoValueTypes}

-----------------------------------------------------------------------------
(* Info maps with several keys *)

\* "kj", of which "k" is a prefix
KeyKJ == <<107, 106>>

ItemKeys == {Str(KeyJ), Str(KeyK), Str(KeyKJ)}

\* The value types and values that the calls set
ItemValues == {<<"Bool", TRUE>>, <<"String", Str(ValueV)>>, <<"I64", 1>>}

\* The allocations a set or remove makes, and what the build makes of the
\* shift in IdealCapacity
ItemAllocs ==
    {AllocsOK, [AllocsOK EXCEPT !.keyOK = FALSE],
     [AllocsOK EXCEPT !.itemsOK = FALSE], [AllocsOK EXCEPT !.shift = "zero"]}

RERR_InfoMap_Begin(m, imap) ==
    IF imap = NullPtr \/ RERR_InfoMap_IsOutOfMemory(m, imap) THEN NullPos
    ELSE 0

RERR_InfoMap_End(m, imap) ==
    IF imap = NullPtr \/ RERR_InfoMap_IsOutOfMemory(m, imap) THEN NullPos
    ELSE Len(m.infos[imap].items)

RERR_InfoMap_Advance(m, imap, it) == it + 1

RERR_InfoMapIterator_GetKey(m, imap, it) == m.infos[imap].items[it + 1].key

\* The keys that the loop
\*   for (it = Begin(map); it != End(map); it = Advance(map, it))
\* visits from the position it on, in the order of the visits
RECURSIVE VisitFrom(_, _, _)
VisitFrom(m, imap, it) ==
    IF it = RERR_InfoMap_End(m, imap) THEN << >>
    ELSE <<RERR_InfoMapIterator_GetKey(m, imap, it)>>
         \o VisitFrom(m, imap, RERR_InfoMap_Advance(m, imap, it))

Iterate(m, imap) == VisitFrom(m, imap, RERR_InfoMap_Begin(m, imap))

ItemsInit ==
    /\ RegIdle
    /\ ArrIdle
    /\ FmtIdle
    /\ PrbIdle
    /\ DcIdle
    /\ RcIdle
    /\ SrIdle
    /\ CfgIdle
    /\ mem = EmptyMem
    /\ domains = NoDomains
    /\ held = NoHandles
    /\ elast = NoCall
    /\ args = InfoScenario(Str(KeyK), "Bool", TRUE, "none")

ItemSet ==
    /\ ~mem.fault
    /\ \E imap \in HeldMaps, key \in ItemKeys, tv \in ItemValues,
          al \in ItemAllocs :
          \E after \in {SetTyped(mem, imap, key, tv[1], tv[2], al)} :
              /\ mem' = after
              /\ held' = IF after.fault THEN NoHandles ELSE held
    /\ UNCHANGED <<elast, domains, args, regVars, cfgVars, arrVars, fmtVars, prbVars,
            dcVars, rcVars, srVars>>

ItemRemove ==
    /\ ~mem.fault
    /\ \E imap \in HeldMaps, key \in ItemKeys,
          al \in {AllocsOK, [AllocsOK EXCEPT !.shift = "zero"]} :
          \E after \in {RERR_InfoMap_Remove(mem, imap, key, al)} :
              /\ mem' = after
              /\ held' = IF after.fault THEN NoHandles ELSE held
    /\ UNCHANGED <<elast, domains, args, regVars, cfgVars, arrVars, fmtVars, prbVars,
            dcVars, rcVars, srVars>>

ItemsNext ==
    \/ MapCreate
    \/ ItemSet
    \/ ItemRemove
    \/ MapClear
    \/ MapDestroy

SpecItems == ItemsInit /\ [][ItemsNext]_vars

-----------------------------------------------------------------------------
(* Properties of the items of an info map *)

\* The keys are in strictly ascending order of strcmp.
SortedKeys(keys) ==
    \A i, j \in 1..Len(keys) : i < j => StrCmp(keys[i], keys[j]) < 0

\* C21: the items of a mutable map are in strictly ascending order of
\* their keys, and the iteration visits every item once, in that order; a
\* set on a map that is not in out-of-memory mode (no allocation failing)
\* returns, on a key that the map has it leaves the size as it was, on a
\* new key it adds one to the size, and the key then has the type set.
C21_ItemsSorted ==
    ~mem.fault =>
        \A p \in HeldMaps :
            LET keys == Iterate(mem, p)
            IN  /\ SortedKeys(keys)
                /\ Len(keys) = RERR_InfoMap_GetSize(mem, p)
                /\ \A key \in ItemKeys :
                      RERR_InfoMap_HasKey(mem, p, key)
                      <=> (\E i \in 1..Len(keys) : keys[i] = key.chars)
                /\ \A key \in ItemKeys, tv \in ItemValues,
                      al \in {AllocsOK, [AllocsOK EXCEPT !.shift = "zero"]} :
                      RERR_InfoMap_IsOutOfMemory(mem, p) \/
                      LET after == SetTyped(mem, p, key, tv[1], tv[2], al)
                      IN  /\ ~after.fault
                          /\ RERR_InfoMap_GetSize(after, p) =
                                IF RERR_InfoMap_HasKey(mem, p, key)
                                THEN RERR_InfoMap_GetSize(mem, p)
                                ELSE RERR_InfoMap_GetSize(mem, p) + 1
                          /\ RERR_InfoMap_GetType(after, p, key) = tv[1]
                          /\ SortedKeys(Iterate(after, p))

-----------------------------------------------------------------------------
(* Properties of the out-of-memory map value *)

\* C22: whatever the state, every public function called with the
\* out-of-memory map value returns and changes nothing: the reads report
\* an empty map, isMutable is false, every set, remove, clear,
\* reserveCapacity and makeImmutable is a no-op, every copy is the
\* out-of-memory map value again, destroy is a no-op, and the queries of
\* programming errors report none.
C22_OomMapValueIsInert ==
    ~mem.fault =>
        /\ ReadsEmpty(mem, OomPtr)
        /\ RERR_InfoMap_IsOutOfMemory(mem, OomPtr)
        /\ ~RERR_InfoMap_IsMutable(mem, OomPtr)
        /\ RERR_InfoMap_Begin(mem, OomPtr) = RERR_InfoMap_End(mem, OomPtr)
        /\ \A after \in MutatorResults(mem, OomPtr) : after = mem
        /\ RERR_InfoMap_MakeImmutable(mem, OomPtr) = mem
        /\ RERR_InfoMap_MakeOutOfMemory(mem, OomPtr) = mem
        /\ RERR_InfoMap_Destroy(mem, OomPtr) = mem
        /\ \A al \in CopyAllocs :
              /\ RERR_InfoMap_Copy(mem, OomPtr, al) =
                    [mem |-> mem, ret |-> OomPtr]
              /\ RERR_InfoMap_MutableCopy(mem, OomPtr, al) =
                    [mem |-> mem, ret |-> OomPtr]
              /\ RERR_InfoMap_ImmutableCopy(mem, OomPtr, al) =
                    [mem |-> mem, ret |-> OomPtr]
        /\ \A capacity \in 0..2 :
              RERR_InfoMap_ReserveCapacity(mem, OomPtr, capacity, AllocsOK)
              = mem
        /\ RERR_InfoMap_HasProgrammingErrors(mem, OomPtr) =
              [mem |-> mem, ret |-> FALSE]
        /\ RERR_InfoMap_GetProgrammingErrors(mem, OomPtr) =
              [mem |-> mem, ret |-> 1]

-----------------------------------------------------------------------------
(* Arrays: the calls of DynArray.h on one array of 4-byte elements *)

\* The size of the elements of the array
ElemSize == 4

\* The calls are made while the array has at most this many elements.
MaxSize == 28

\* Elements are inserted and erased at the front only in arrays that are
\* not larger than this.
MaxFront == 2

\* The calls are made while malloc and realloc have returned at most this
\* many blocks for the array.
MaxAllocs == 12

SetCapacity_LosesBlock(a, newCap, allocOK) ==
    IF newCap = 0 \/ ~allocOK
    THEN [a |-> [a EXCEPT !.storage = 0, !.capacity = 0], ok |-> newCap = 0]
    ELSE [a |-> [a EXCEPT !.storage = a.allocs + 1,
                          !.allocs = a.allocs + 1,
                          !.capacity = newCap],
          ok |-> TRUE]

\* The array `a` after SetCapacity(arr, newCap), and what it returns.
\* storage names the block that holds the elements (0 is NULL): a block
\* that malloc or realloc returns gets the next name, and allocs counts
\* these calls.  With newCap == 0 the block is freed whatever the size.
SetCapacity(a, newCap, allocOK) ==
    IF newCap = 0
    THEN [a |-> [a EXCEPT !.storage = 0, !.capacity = 0], ok |-> TRUE]
    ELSE IF ~allocOK THEN [a |-> a, ok |-> FALSE]
    ELSE [a |-> [a EXCEPT !.storage = a.allocs + 1,
                          !.allocs = a.allocs + 1,
                          !.capacity = newCap],
          ok |-> TRUE]

\* EnsureCapacity on the array with its storage
Array_EnsureCapacity(a, size, allocOK) ==
    IF a.capacity >= size THEN [a |-> a, ok |-> TRUE]
    ELSE SetCapacity(a, IdealCapacity(a.arr, size), allocOK)

\* MaybeShrink on the array with its storage
Array_MaybeShrink(a, allocOK) ==
    LET idealCap == IdealCapacity(a.arr, Len(a.elems) + a.arr.capHysteresis)
    IN  IF a.capacity > idealCap THEN SetCapacity(a, idealCap, allocOK).a
        ELSE a

\* The elements are read or written in a block that has been freed, or
\* through the null pointer.
Lost(a) == [a EXCEPT !.state = "fault"]

\* RERR_DynArray_Insert before the position pos (0 is Begin), followed by
\* the write of the value into the element returned
RERR_DynArray_Insert(a, pos, value, allocOK) ==
    LET ens == Array_EnsureCapacity(a, Len(a.elems) + 1, allocOK)
    IN  IF ~ens.ok THEN [a |-> ens.a, ret |-> NullPos]
        ELSE IF ens.a.storage = 0 THEN [a |-> Lost(ens.a), ret |-> NullPos]
        ELSE [a |-> [ens.a EXCEPT
                        !.elems = SubSeq(a.elems, 1, pos) \o <<value>>
                                  \o SubSeq(a.elems, pos + 1, Len(a.elems)),
                        !.appendOnly = @ /\ pos = Len(a.elems)],
              ret |-> pos]

\* RERR_DynArray_Erase of the element at the position pos
RERR_DynArray_Erase(a, pos, allocOK) ==
    LET erased == [a EXCEPT
                      !.elems = SubSeq(a.elems, 1, pos)
                                \o SubSeq(a.elems, pos + 2, Len(a.elems)),
                      !.appendOnly = FALSE]
        shrunk == Array_MaybeShrink(erased, allocOK)
    IN  IF shrunk.storage = 0 /\ shrunk.elems # << >> THEN Lost(shrunk)
        ELSE shrunk

RERR_DynArray_Clear(a, allocOK) ==
    Array_MaybeShrink([a EXCEPT !.elems = << >>, !.appendOnly = FALSE],
                      allocOK)

RERR_DynArray_ReserveCapacity(a, capacity, allocOK) ==
    LET want == IF capacity < Len(a.elems) THEN Len(a.elems) ELSE capacity
        ens == [Array_EnsureCapacity(a, want, allocOK).a
                   EXCEPT !.appendOnly = FALSE]
    IN  IF ens.storage = 0 /\ ens.elems # << >> THEN Lost(ens) ELSE ens

RERR_DynArray_GetSize(a) == Len(a.elems)

ArrayInit ==
    /\ RegIdle
    /\ CfgIdle
    /\ ErrIdle
    /\ array = NoArray
    /\ FmtIdle
    /\ PrbIdle
    /\ DcIdle
    /\ RcIdle
    /\ SrIdle

\* RERR_DynArray_Create(ElemSize) on a build that evaluates an oversized
\* shift as `shift`; when calloc fails, no array is created.
ArrayCreate ==
    /\ array.state = "none"
    /\ \E shift \in {"modulo", "zero"}, allocOK \in BOOLEAN :
          array' = IF ~allocOK THEN array
                   ELSE [NoArray EXCEPT
                            !.state = "live",
                            !.arr = Build(RERR_DynArray_Create(ElemSize),
                                          shift)]
    /\ UNCHANGED <<regVars, cfgVars, errVars, fmtVars, prbVars, dcVars, rcVars,
            srVars>>

ArrayInsert ==
    /\ array.state = "live"
    /\ array.allocs < MaxAllocs
    /\ Len(array.elems) < MaxSize
    /\ \E pos \in {0, Len(array.elems)}, allocOK \in BOOLEAN :
          /\ pos = Len(array.elems) \/ Len(array.elems) <= MaxFront
          /\ array' = RERR_DynArray_Insert(array, pos, Len(array.elems) + 1,
                                           allocOK).a
    /\ UNCHANGED <<regVars, cfgVars, errVars, fmtVars, prbVars, dcVars, rcVars,
            srVars>>

ArrayErase ==
    /\ array.state = "live"
    /\ array.allocs < MaxAllocs
    /\ array.elems # << >>
    /\ \E pos \in {0, Len(array.elems) - 1} :
          /\ pos = Len(array.elems) - 1 \/ Len(array.elems) <= MaxFront
          /\ array' = RERR_DynArray_Erase(array, pos, TRUE)
    /\ UNCHANGED <<regVars, cfgVars, errVars, fmtVars, prbVars, dcVars, rcVars,
            srVars>>

ArrayClear ==
    /\ array.state = "live"
    /\ array.allocs < MaxAllocs
    /\ array' = RERR_DynArray_Clear(array, TRUE)
    /\ UNCHANGED <<regVars, cfgVars, errVars, fmtVars, prbVars, dcVars, rcVars,
            srVars>>

ArrayReserveCapacity ==
    /\ array.state = "live"
    /\ array.allocs < MaxAllocs
    /\ \E capacity \in {1, Len(array.elems) + 1}, allocOK \in BOOLEAN :
          array' = RERR_DynArray_ReserveCapacity(array, capacity, allocOK)
    /\ UNCHANGED <<regVars, cfgVars, errVars, fmtVars, prbVars, dcVars, rcVars,
            srVars>>

ArrayNext ==
    \/ ArrayCreate
    \/ ArrayInsert
    \/ ArrayErase
    \/ ArrayClear
    \/ ArrayReserveCapacity

SpecArray == ArrayInit /\ [][ArrayNext]_vars

-----------------------------------------------------------------------------
(* Properties of arrays *)

\* The insert before pos needs storage that the array does not have.
NeedsAllocation(a) ==
    /\ a.capacity < Len(a.elems) + 1
    /\ IdealCapacity(a.arr, Len(a.elems) + 1) # 0

\* C23: when the insert needs an allocation and the allocation fails, the
\* insert returns the null position and the array is as it was: the same
\* elements in the same order, the same capacity, the same storage.
C23_FailedInsertChangesNothing ==
    (array.state = "live" /\ NeedsAllocation(array)) =>
        \A pos \in 0..Len(array.elems) :
            LET r == RERR_DynArray_Insert(array, pos, 0, FALSE)
            IN  /\ r.ret = NullPos
                /\ r.a = array
                /\ RERR_DynArray_GetSize(r.a) = Len(array.elems)

\* The array is full and holds elements: the next insert has to allocate.
C23_Witness ==
    /\ array.state = "live"
    /\ Len(array.elems) >= 2
    /\ array.capacity = Len(array.elems)
    /\ array.storage # 0
    /\ NeedsAllocation(array)
    /\ RERR_DynArray_Insert(array, 1, 0, FALSE).ret = NullPos

\* C24: while elements are only appended to a new array, malloc and
\* realloc are called at most 10 times (the bound claimed for 1000
\* appends holds for every smaller number of them, the calls being
\* counted from the creation on), and every call that enlarges the storage
\* of a full array at least doubles the capacity.
C24_LogarithmicGrowth ==
    /\ []((array.state # "none" /\ array.appendOnly) =>
             array.state = "live" /\ array.allocs <= 10)
    /\ [][(/\ array.state = "live"
           /\ array'.appendOnly
           /\ array.capacity > 0
           /\ array'.allocs > array.allocs)
          => /\ Len(array.elems) = array.capacity
             /\ array'.capacity >= 2 * array.capacity]_vars

-----------------------------------------------------------------------------
(* Formatting of error codes (RichErrors.c) *)

RERR_FORMATTED_CODE_MAX_SIZE == 64

\* "(no code)"
MsgNoCode == <<40, 110, 111, 32, 99, 111, 100, 101, 41>>

\* "???"
MsgCannotFit == <<63, 63, 63>>

\* format & flag is not zero, for a flag that is a single bit
HasFlag(format, flag) == (format \div flag) % 2 = 1

\* The numbers of the model have 32 signed bits, as int32_t has; the value
\* of (uint32_t)code is handled as its two halves of 16 bits.
LowHalf(code) == code % 65536

HighHalf(code) == (code \div 65536) % 65536

\* (uint16_t)code and (int16_t)code
ToUint16(code) == LowHalf(code)

ToInt16(code) ==
    IF LowHalf(code) >= 32768 THEN LowHalf(code) - 65536 ELSE LowHalf(code)

\* The decimal digits of n >= 0
RECURSIVE Digits(_)
Digits(n) ==
    IF n < 10 THEN <<48 + n>> ELSE Digits(n \div 10) \o <<48 + (n % 10)>>

\* The decimal digits of -n for n < 0, taken from n itself (-INT32_MIN is
\* not an int32_t)
RECURSIVE NegDigits(_)
NegDigits(n) ==
    LET digit == (10 - (n % 10)) % 10
        rest == (n \div 10) + (IF n % 10 = 0 THEN 0 ELSE 1)
    IN  IF rest = 0 THEN <<48 + digit>>
        ELSE NegDigits(rest) \o <<48 + digit>>

\* snprintf "%d"
SignedDecimal(n) == IF n < 0 THEN <<45>> \o NegDigits(n) ELSE Digits(n)

\* digits, with zeros in front up to the given width
RECURSIVE ZeroPad(_, _)
ZeroPad(digits, width) ==
    IF Len(digits) >= width THEN digits ELSE ZeroPad(<<48>> \o digits, width)

\* A conversion that prints the code as it is, with its sign
UnsignedDecimal_PrintsSigned(code) == SignedDecimal(code)

\* snprintf "%u" of (uint32_t)code: for code < 0 the value is 2^32 + code,
\* and 2^32 is 42949 * 10^5 + 67296.
UnsignedDecimal(code) ==
    IF code >= 0 THEN Digits(code)
    ELSE LET low == 67296 + (code % 100000)
             high == 42949 + (code \div 100000) + (low \div 100000)
         IN  Digits(high) \o ZeroPad(Digits(low % 100000), 5)

HexDigit(d) == IF d < 10 THEN 48 + d ELSE 87 + d

\* The four hexadecimal digits of a value of 16 bits
Hex4(h) ==
    <<HexDigit(h \div 4096), HexDigit((h \div 256) % 16),
      HexDigit((h \div 16) % 16), HexDigit(h % 16)>>

RECURSIVE StripZeros(_)
StripZeros(digits) ==
    IF Len(digits) > 1 /\ Head(digits) = 48 THEN StripZeros(Tail(digits))
    ELSE digits

\* snprintf "0x%08x" or "0x%x" of (uint32_t)code
Hex32(code, noPad) ==
    LET digits == Hex4(HighHalf(code)) \o Hex4(LowHalf(code))
    IN  <<48, 120>> \o (IF noPad THEN StripZeros(digits) ELSE digits)

\* snprintf "0x%04x" or "0x%x" of (uint16_t)code
Hex16(code, noPad) ==
    LET digits == Hex4(ToUint16(code))
    IN  <<48, 120>> \o (IF noPad THEN StripZeros(digits) ELSE digits)

\* strncpy(dest, text, destSize); dest[destSize - 1] = '\0', destSize > 0
StrNCpy(text, destSize) ==
    SubSeq(text, 1, IF Len(text) < destSize THEN Len(text) ELSE destSize - 1)

\* What the call leaves in dest: written is whether dest was written at
\* all, dest the string it holds then.  A later snprintf into dec or hex
\* replaces what an earlier one wrote.
RERR_Error_FormatCode(m, error, destNull, destSize) ==
    IF destNull \/ destSize = 0 THEN [written |-> FALSE, dest |-> << >>]
    ELSE IF error = NullPtr
    THEN [written |-> TRUE, dest |-> StrNCpy(MsgNoCode, destSize)]
    ELSE LET domain == IF error = OomPtr THEN RichErrorsCriticalDomain
                       ELSE m.errors[error].domain
             code == IF error = OomPtr THEN RERR_ECODE_OUT_OF_MEMORY
                     ELSE m.errors[error].code
             format == domain.codeFormat
             noPad == HasFlag(format, RERR_CodeFormat_HexNoPad)
             dec == IF HasFlag(format, RERR_CodeFormat_U16)
                    THEN Digits(ToUint16(code))
                    ELSE IF HasFlag(format, RERR_CodeFormat_I16)
                    THEN SignedDecimal(ToInt16(code))
                    ELSE IF HasFlag(format, RERR_CodeFormat_U32)
                    THEN UnsignedDecimal(code)
                    ELSE IF HasFlag(format, RERR_CodeFormat_I32)
                    THEN SignedDecimal(code)
                    ELSE << >>
             hex == IF HasFlag(format, RERR_CodeFormat_Hex16)
                    THEN Hex16(code, noPad)
                    ELSE IF HasFlag(format, RERR_CodeFormat_Hex32)
                    THEN Hex32(code, noPad)
                    ELSE << >>
             primary == IF Len(dec) > 0 THEN dec ELSE hex
             secondary == IF Len(dec) > 0 /\ Len(hex) > 0 THEN hex ELSE << >>
         IN  IF domain.null
             THEN [written |-> TRUE, dest |-> StrNCpy(MsgNoCode, destSize)]
             ELSE IF destSize < Len(primary) + 1
             THEN [written |-> TRUE, dest |-> StrNCpy(MsgCannotFit, destSize)]
             ELSE IF secondary = << >>
             THEN [written |-> TRUE, dest |-> primary]
             ELSE IF destSize < Len(primary) + 2 + Len(secondary) + 1 + 1
             THEN [written |-> TRUE, dest |-> primary]
             ELSE [written |-> TRUE,
                   dest |-> primary \o <<32, 40>> \o secondary \o <<41>>]

-----------------------------------------------------------------------------
(* Calls of RERR_Error_FormatCode *)

\* Every format CodeFormat_Check accepts
FormatFlags ==
    ValidCodeFormats \cup
    {format + RERR_CodeFormat_HexNoPad : format \in ValidCodeFormats}

\* Codes at the ends of the ranges of 16 and of 32 bits, and between them
FormatCodes ==
    {INT32_MIN, -32769, -32768, -1, 0, 1234, 32767, 32768, 65535, 65536,
     INT32_MAX}

\* Destinations too small for anything, for the decimal text, for the
\* whole text, and large enough for every text
DestSizes == {0, 1, 3, 5, 7, 11, 12, 15, 24, RERR_FORMATTED_CODE_MAX_SIZE}

FormatInit ==
    /\ RegIdle
    /\ CfgIdle
    /\ ArrIdle
    /\ FmtIdle
    /\ PrbIdle
    /\ DcIdle
    /\ RcIdle
    /\ SrIdle
    /\ mem = EmptyMem
    /\ domains = NoDomains
    /\ held = NoHandles
    /\ elast = NoCall
    /\ args = [domainName |-> Str(NameA), code |-> 0, message |-> NullStr]

\* RERR_Domain_Register(NameA, format), once
FormatRegister ==
    /\ domains = NoDomains
    /\ \E format \in FormatFlags :
          \E r \in {RERR_Domain_Register(mem, domains, args.domainName,
                                         format, AllocsOK)} :
              /\ mem' = r.mem
              /\ domains' = r.doms
              /\ held' = TakeError(held, r.ret)
    /\ UNCHANGED <<elast, args, regVars, cfgVars, arrVars, fmtVars, prbVars, dcVars,
            rcVars, srVars>>

\* RERR_Error_CreateWithCode(NameA, code, NULL) or RERR_Error_Create(NULL),
\* once; the error made is the one to format.
FormatCreate ==
    /\ held = NoHandles
    /\ fcall.state = "none"
    /\ \E code \in FormatCodes, al \in ErrorAllocs, withCode \in BOOLEAN :
          \E r \in {IF withCode
                    THEN RERR_Error_CreateWithCode(mem, domains,
                             args.domainName, code, args.message, al)
                    ELSE RERR_Error_Create(mem, args.message, al)} :
              /\ mem' = r.mem
              /\ held' = TakeError(held, r.ret)
              /\ fcall' = [NoFormatCall EXCEPT !.state = "args",
                                               !.error = r.ret]
    /\ UNCHANGED <<domains, elast, args, regVars, cfgVars, arrVars, prbVars, dcVars,
            rcVars, srVars>>

\* RERR_Error_FormatCode(error, dest, destSize), on the error made or on
\* RERR_NO_ERROR
FormatCode ==
    /\ fcall.state \in {"none", "args"}
    /\ \E destNull \in BOOLEAN, destSize \in DestSizes :
          \E r \in {RERR_Error_FormatCode(mem, fcall.error, destNull,
                                          destSize)} :
              fcall' = [state |-> "done", error |-> fcall.error,
                        destNull |-> destNull, destSize |-> destSize,
                        written |-> r.written, dest |-> r.dest]
    /\ UNCHANGED <<regVars, cfgVars, errVars, arrVars, prbVars, dcVars, rcVars,
            srVars>>

FormatNext ==
    \/ FormatRegister
    \/ FormatCreate
    \/ FormatCode

SpecFormat == FormatInit /\ [][FormatNext]_vars

-----------------------------------------------------------------------------
(* Properties of the formatted code *)

DecimalChars == 48..57

HexChars == (48..57) \cup (97..102)

DigitValue(c) == IF c \in 48..57 THEN c - 48 ELSE c - 87

\* The number that the digits denote in the given base, as its halves of
\* 16 bits <<high, low>>; high is 65536 or more when the number does not
\* fit 32 bits.
RECURSIVE Halves(_, _, _, _)
Halves(digits, base, high, low) ==
    IF digits = << >> THEN <<high, low>>
    ELSE LET l == low * base + DigitValue(Head(digits))
         IN  Halves(Tail(digits), base, high * base + (l \div 65536),
                    l % 65536)

\* A number written without needless zeros in front
Canonical(digits, chars) ==
    /\ digits # << >>
    /\ \A i \in 1..Len(digits) : digits[i] \in chars
    /\ Len(digits) > 1 => Head(digits) # 48

\* text is the unsigned decimal numeral of the value of `bits` bits that is
\* congruent to code modulo 2^bits
IsUnsignedOf(text, code, bits) ==
    /\ Canonical(text, DecimalChars)
    /\ Len(text) <= 10
    /\ Halves(text, 10, 0, 0) =
           <<IF bits = 32 THEN HighHalf(code) ELSE 0, LowHalf(code)>>

\* The value of bits two's-complement bits of code, as its sign and the
\* halves of its magnitude
SignOf(code, bits) ==
    IF bits = 32 THEN code < 0 ELSE LowHalf(code) >= 32768

MagnitudeOf(code, bits) ==
    IF ~SignOf(code, bits)
    THEN <<IF bits = 32 THEN HighHalf(code) ELSE 0, LowHalf(code)>>
    ELSE IF bits = 16 THEN <<0, 65536 - LowHalf(code)>>
    ELSE IF LowHalf(code) = 0 THEN <<65536 - HighHalf(code), 0>>
    ELSE <<65535 - HighHalf(code), 65536 - LowHalf(code)>>

\* text is the signed decimal numeral of the value that the low `bits` bits
\* of code have in two's complement
IsSignedOf(text, code, bits) ==
    LET digits == IF SignOf(code, bits) THEN Tail(text) ELSE text
    IN  /\ text # << >>
        /\ SignOf(code, bits) <=> Head(text) = 45
        /\ Canonical(digits, DecimalChars)
        /\ Len(digits) <= 10
        /\ Halves(digits, 10, 0, 0) = MagnitudeOf(code, bits)

\* text is "0x" and the hexadecimal numeral of code modulo 2^bits, of
\* bits / 4 digits, or without zeros in front when the format says so
IsHexOf(text, code, bits, noPad) ==
    LET digits == SubSeq(text, 3, Len(text))
    IN  /\ Len(text) > 2
        /\ SubSeq(text, 1, 2) = <<48, 120>>
        /\ \A i \in 1..Len(digits) : digits[i] \in HexChars
        /\ IF noPad THEN Canonical(digits, HexChars)
           ELSE Len(digits) = bits \div 4
        /\ Halves(digits, 16, 0, 0) =
               <<IF bits = 32 THEN HighHalf(code) ELSE 0, LowHalf(code)>>

HasDecimal(format) ==
    \E flag \in {RERR_CodeFormat_I32, RERR_CodeFormat_U32,
                 RERR_CodeFormat_I16, RERR_CodeFormat_U16} :
        HasFlag(format, flag)

HasHex(format) ==
    HasFlag(format, RERR_CodeFormat_Hex32)
        \/ HasFlag(format, RERR_CodeFormat_Hex16)

IsDecimalOf(text, code, format) ==
    \/ HasFlag(format, RERR_CodeFormat_I32) /\ IsSignedOf(text, code, 32)
    \/ HasFlag(format, RERR_CodeFormat_U32) /\ IsUnsignedOf(text, code, 32)
    \/ HasFlag(format, RERR_CodeFormat_I16) /\ IsSignedOf(text, code, 16)
    \/ HasFlag(format, RERR_CodeFormat_U16) /\ IsUnsignedOf(text, code, 16)

IsHexadecimalOf(text, code, format) ==
    LET noPad == HasFlag(format, RERR_CodeFormat_HexNoPad)
    IN  \/ HasFlag(format, RERR_CodeFormat_Hex32)
              /\ IsHexOf(text, code, 32, noPad)
        \/ HasFlag(format, RERR_CodeFormat_Hex16)
              /\ IsHexOf(text, code, 16, noPad)

\* text is the whole rendering of code: the decimal text, the hexadecimal
\* text, or "<decimal> (<hex>)" when the format has both
IsRenderingOf(text, code, format) ==
    IF HasDecimal(format) /\ HasHex(format)
    THEN \E n \in 1..Len(text) :
            /\ Len(text) >= n + 6
            /\ IsDecimalOf(SubSeq(text, 1, n), code, format)
            /\ SubSeq(text, n + 1, n + 2) = <<32, 40>>
            /\ IsHexadecimalOf(SubSeq(text, n + 3, Len(text) - 1), code,
                               format)
            /\ text[Len(text)] = 41
    ELSE IF HasDecimal(format) THEN IsDecimalOf(text, code, format)
    ELSE IsHexadecimalOf(text, code, format)

\* "-1 (0xffffffff)" and "0 (0x00000000)"
TextMinusOne ==
    <<45, 49, 32, 40, 48, 120, 102, 102, 102, 102, 102, 102, 102, 102, 41>>

TextZero ==
    <<48, 32, 40, 48, 120, 48, 48, 48, 48, 48, 48, 48, 48, 41>>

\* The call made last formatted an error that has a code, into a
\* destination that exists
FormattedACode ==
    /\ fcall.state = "done"
    /\ fcall.written
    /\ IsObject(fcall.error)
    /\ ~mem.errors[fcall.error].domain.null

FormattedCode == mem.errors[fcall.error].code

FormattedFormat == mem.errors[fcall.error].domain.codeFormat

Examples ==
    FormattedFormat = RERR_CodeFormat_I32 + RERR_CodeFormat_Hex32
        => /\ FormattedCode = -1 => fcall.dest = TextMinusOne
           /\ FormattedCode = 0 => fcall.dest = TextZero

-----------------------------------------------------------------------------
(* Properties of the table of the registry *)

\* The (thread, code, error) entries of the table
Entries(m) == {m.mappings[i] : i \in 1..Len(m.mappings)}

\* C26: a retrieve of code c by thread t leaves every entry other than
\* (t, c) in the table, with its error; a retrieve of a code that is not
\* registered for the thread leaves the table as it is.
C26_RetrieveFrame ==
    map.alive =>
        \A t \in Threads, code \in ArgCodes(map), allocOK \in BOOLEAN :
            LET r == RERR_ErrorMap_RetrieveThreadLocal(map, t, code, allocOK)
            IN  /\ \A x \in Entries(map) :
                       ~(x.thread = t /\ x.code = code)
                           => x \in Entries(r.map)
                /\ ~HasEntry(map, t, code)
                       => r.map.mappings = map.mappings

\* One step of the rotating cursor, as the claims describe it
OneStep(code, m) ==
    IF code = m.maxCode THEN m.minCode
    ELSE IF code = INT32_MAX THEN INT32_MIN
    ELSE code + 1

\* The call just made registered a caller-made error (neither no-error nor
\* the out-of-memory value).
RegisteredRealError(l) == l.op = "register" /\ l.error.kind = "Error"

\* C27: nextCode is always a code of the mapped range and is minCode in a
\* new registry; a registration of a real error moves it one step on
\* (maxCode to minCode, else INT32_MAX to INT32_MIN, else c to c + 1)
\* whether or not the error was registered, and no other call changes it.
C27_CursorAdvances ==
    /\ map.nextCode = map.minCode
    /\ [](map.alive => InMappedRange(map.nextCode, map))
    /\ [][IF RegisteredRealError(last')
          THEN map'.nextCode = OneStep(map.nextCode, map)
          ELSE map'.nextCode = map.nextCode]_vars

\* A registration that failed on allocation, as the first call on a
\* registry of the wrapped range, moved the cursor from INT32_MAX to
\* INT32_MIN.
C27_Witness ==
    /\ map.alive
    /\ RegisteredRealError(last) /\ ~last.flag
    /\ last.code = map.oomCode
    /\ map.minCode = INT32_MAX
    /\ map.nextCode = INT32_MIN

\* The code n steps after code in the order of the cursor
RECURSIVE StepsFrom(_, _, _)
StepsFrom(code, n, m) ==
    IF n = 0 THEN code ELSE StepsFrom(OneStep(code, m), n - 1, m)

RangeSize(m) == Cardinality(MappedCodes(m))

\* code is the first code from the cursor on, in step order, for which the
\* thread has no entry.
IsFirstFree(code, m, thread) ==
    \E k \in 0..(RangeSize(m) - 1) :
        /\ code = StepsFrom(m.nextCode, k, m)
        /\ ~HasEntry(m, thread, code)
        /\ \A j \in 0..(k - 1) :
               HasEntry(m, thread, StepsFrom(m.nextCode, j, m))

\* C28: a registration that succeeds returns the first code, in step order
\* from the cursor, that the thread has no entry for; the k-th registration
\* of a real error made on a registry, by whichever thread, returns the k-th
\* code of the range when it succeeds and k is not above the size of the
\* range; in the wrapped range [INT32_MAX, INT32_MIN] a thread that holds
\* both codes gets mapFailureCode for its third registration.
C28_FirstFreeCode ==
    map.alive =>
        \A t \in Threads, e \in Errors, allocOK \in BOOLEAN :
            LET r == RERR_ErrorMap_RegisterThreadLocal(
                         map, t, CallerError(e), allocOK)
            IN  /\ r.inserted => IsFirstFree(r.ret, map, t)
                /\ r.inserted /\ NumRegistered < RangeSize(map)
                       => r.ret = StepsFrom(map.minCode, NumRegistered, map)
                /\ (/\ map.minCode = INT32_MAX /\ map.maxCode = INT32_MIN
                    /\ HasEntry(map, t, INT32_MAX)
                    /\ HasEntry(map, t, INT32_MIN))
                       => ~r.inserted /\ r.ret = map.failCode

\* Two registrations were made on a range of two codes or more, the cursor
\* is back at a code the thread of the first one still holds, and the next
\* code is free for it: its next registration has to probe past the cursor.
C28_Witness ==
    /\ map.alive
    /\ RegisteredRealError(last) /\ last.flag
    /\ last.code = StepsFrom(map.minCode, 1, map)
    /\ NumRegistered = 2
    /\ \E t \in Threads :
          /\ HasEntry(map, t, map.nextCode)
          /\ ~HasEntry(map, t, OneStep(map.nextCode, map))
          /\ RERR_ErrorMap_RegisterThreadLocal(
                 map, t, CallerError(1), TRUE).ret
                     = OneStep(map.nextCode, map)

-----------------------------------------------------------------------------
(* RERR_ErrorMap_RegisterThreadLocal, step by step *)

\* A lock that is never given back
UnlockMutex_KeepsLock(owner, thread) == owner

\* LockMutex returns when the mutex is free or the caller's own
\* (RecursiveMutex); UnlockMutex gives up the one acquisition these
\* functions make.
CanLock(owner, thread) == owner = 0 \/ owner = thread

UnlockMutex(owner, thread) == 0

\* The call up to LockMutex: the two values that need no entry are answered
\* without the lock.
CallRegister(t) ==
    /\ map.alive
    /\ regCall.thread[t].pc = "idle"
    /\ regCall.calls < MaxCalls
    /\ \E error \in {RERR_NO_ERROR, RERR_OUT_OF_MEMORY,
                     CallerError(1 + (regCall.calls % MaxErrors))} :
          regCall' = [regCall EXCEPT
              !.calls = @ + 1,
              !.thread[t] =
                  IF error = RERR_NO_ERROR
                  THEN [NotCalling EXCEPT !.ret = map.noErrorCode]
                  ELSE IF RERR_Error_IsOutOfMemory(error)
                  THEN [NotCalling EXCEPT !.error = error,
                                          !.ret = map.oomCode]
                  ELSE [NotCalling EXCEPT !.pc = "lock", !.error = error,
                                          !.ret = map.noErrorCode]]
    /\ UNCHANGED <<regVars, cfgVars, errVars, arrVars, fmtVars, dcVars, rcVars,
            srVars>>

\* LockMutex, and the cursor read and moved on
AcquireLock(t) ==
    /\ regCall.thread[t].pc = "lock"
    /\ CanLock(regCall.owner, t)
    /\ map' = [map EXCEPT
                  !.nextCode = IncrementCode(@, map.minCode, map.maxCode)]
    /\ regCall' = [regCall EXCEPT !.owner = t,
                              !.thread[t].pc = "loop",
                              !.thread[t].firstCandidate = map.nextCode,
                              !.thread[t].code = map.nextCode]
    /\ UNCHANGED <<last, ledger, expected, cfgVars, errVars, arrVars,
                   fmtVars, dcVars, rcVars, srVars>>

\* One round of the for loop
ProbeStep(t) ==
    /\ regCall.thread[t].pc = "loop"
    /\ \E allocOK \in BOOLEAN :
          LET self == regCall.thread[t]
              found == ErrorMap_Find(map, t, self.code)
              ins == ErrorMap_Insert(map, t, self.code, self.error, allocOK)
              next == IncrementCode(self.code, map.minCode, map.maxCode)
              seen == Append(self.examined, self.code)
          IN  IF found = NullPos
              THEN /\ map' = ins.map
                   /\ regCall' = [regCall EXCEPT
                         !.thread[t].pc = "unlock",
                         !.thread[t].examined = seen,
                         !.thread[t].ret =
                             IF ins.err = RERR_NO_ERROR THEN self.code
                             ELSE IF RERR_Error_IsOutOfMemory(ins.err)
                             THEN map.oomCode
                             ELSE map.failCode]
              ELSE /\ map' = map
                   /\ regCall' = [regCall EXCEPT
                         !.thread[t].pc =
                             IF next = self.firstCandidate THEN "unlock"
                             ELSE "loop",
                         !.thread[t].examined = seen,
                         !.thread[t].code = next,
                         !.thread[t].ret =
                             IF next = self.firstCandidate THEN map.failCode
                             ELSE self.ret]
    /\ UNCHANGED <<last, ledger, expected, cfgVars, errVars, arrVars,
                   fmtVars, dcVars, rcVars, srVars>>

\* UnlockMutex and return ret
ReleaseLock(t) ==
    /\ regCall.thread[t].pc = "unlock"
    /\ regCall' = [regCall EXCEPT !.owner = UnlockMutex(@, t),
                              !.thread[t].pc = "idle"]
    /\ UNCHANGED <<regVars, cfgVars, errVars, arrVars, fmtVars, dcVars, rcVars,
            srVars>>

\* RERR_ErrorMap_RetrieveThreadLocal of a mapped code, the whole call: it
\* holds the mutex from its lookup to its erase.
RetrieveLocked(t) ==
    /\ map.alive
    /\ regCall.thread[t].pc = "idle"
    /\ CanLock(regCall.owner, t)
    /\ \E code \in MappedCodes(map) :
          map' = RERR_ErrorMap_RetrieveThreadLocal(map, t, code, TRUE).map
    /\ UNCHANGED <<last, ledger, expected, cfgVars, errVars, arrVars,
                   fmtVars, prbVars, dcVars, rcVars, srVars>>

RegisterStep(t) == AcquireLock(t) \/ ProbeStep(t) \/ ReleaseLock(t)

ProbeNext ==
    \/ \E t \in Threads : CallRegister(t)
    \/ \E t \in Threads : AcquireLock(t)
    \/ \E t \in Threads : ProbeStep(t)
    \/ \E t \in Threads : ReleaseLock(t)
    \/ \E t \in Threads : RetrieveLocked(t)

SpecProbe == Init /\ [][ProbeNext]_vars

\* A thread inside the function keeps running.
SpecProbeLive ==
    SpecProbe /\ \A t \in Threads : WF_vars(RegisterStep(t))

-----------------------------------------------------------------------------
(* Properties of the probe loop *)

NoRepeats(seq) == \A i, j \in 1..Len(seq) : i # j => seq[i] # seq[j]

Inside(t) == regCall.thread[t].pc \in {"loop", "unlock"}

\* The thread owns the mutex exactly while it is between LockMutex and
\* UnlockMutex, and it has looked at no code twice.
LockAndLoop ==
    \A t \in Threads :
        /\ regCall.owner = t <=> Inside(t)
        /\ NoRepeats(regCall.thread[t].examined)
        /\ \A i \in 1..Len(regCall.thread[t].examined) :
               InMappedRange(regCall.thread[t].examined[i], map)

\* The step on which thread t leaves the loop: it has found the code it
\* looked at last free for it, or every code of the range in use.
LeavesLoop(t) ==
    LET before == regCall.thread[t]
        after == regCall'.thread[t]
    IN  before.pc = "loop" /\ after.pc = "unlock"
            => \/ /\ ~HasEntry(map, t, before.code)
                  /\ \A i \in 1..Len(before.examined) :
                         HasEntry(map, t, before.examined[i])
               \/ /\ after.ret = map.failCode
                  /\ after.code = before.firstCandidate
                  /\ \A code \in MappedCodes(map) : HasEntry(map, t, code)
                  /\ Len(after.examined) = Cardinality(MappedCodes(map))

\* The step on which thread t returns gives the mutex up.
Returns(t) ==
    regCall.thread[t].pc # "idle" /\ regCall'.thread[t].pc = "idle"
        => regCall'.owner = 0

\* C29: a call of registerThreadLocal returns, and when it returns the
\* mutex is free again; the loop looks at no code of the range twice and
\* ends at the first code the calling thread has no entry for, or when the
\* probe is back at the first candidate.
C29_RegisterTerminates ==
    /\ []LockAndLoop
    /\ [][\A t \in Threads : LeavesLoop(t) /\ Returns(t)]_vars
    /\ \A t \in Threads :
          (regCall.thread[t].pc # "idle") ~> (regCall.thread[t].pc = "idle")

\* A thread has returned mapFailureCode after it looked at both codes of
\* the wrapped range, and the mutex is free.
C29_Witness ==
    \E t \in Threads :
        /\ regCall.thread[t].pc = "idle"
        /\ regCall.thread[t].examined = <<INT32_MAX, INT32_MIN>>
        /\ regCall.thread[t].ret = map.failCode
        /\ regCall.owner = 0

-----------------------------------------------------------------------------
(* Properties of the order of the table *)

\* (thread, code) of x is below that of y
KeyBelow(x, y) ==
    x.thread < y.thread \/ (x.thread = y.thread /\ x.code < y.code)

\* C30: the entries of the table are in strictly ascending order of
\* (thread, code), the binary search finds each of them where it is, and
\* there are never more entries than the storage has room for.
C30_TableSorted ==
    map.alive =>
        /\ \A i, j \in 1..Len(map.mappings) :
               i < j => KeyBelow(map.mappings[i], map.mappings[j])
        /\ \A i \in 1..Len(map.mappings) :
               ErrorMap_Find(map, map.mappings[i].thread,
                             map.mappings[i].code) = i - 1
        /\ Len(map.mappings) <= map.mapCapacity

\* The error registered second, by the thread with the lower id, stands
\* first in the table.
C30_Witness ==
    /\ map.alive
    /\ Len(map.mappings) = 2
    /\ map.mappings[1].error = CallerError(2)
    /\ map.mappings[2].error = CallerError(1)
    /\ map.mappings[1].thread < map.mappings[2].thread

-----------------------------------------------------------------------------
(* Properties of the threads of the registry *)

\* The error the table holds for (thread, code)
ErrorOf(m, thread, code) ==
    (CHOOSE x \in Entries(m) : x.thread = thread /\ x.code = code).error

\* C31: a code that only thread a has registered is not registered for
\* thread b: b is told so, b's retrieve returns a MapInvalidCode error and
\* leaves the table as it is; and when two threads hold the same code, each
\* of them retrieves its own error, in whichever order they do so.
C31_ThreadsAreIndependent ==
    map.alive =>
        \A a, b \in Threads, code \in MappedCodes(map) :
            LET ra == RERR_ErrorMap_RetrieveThreadLocal(map, a, code, TRUE)
                rb == RERR_ErrorMap_RetrieveThreadLocal(map, b, code, TRUE)
                rab == RERR_ErrorMap_RetrieveThreadLocal(ra.map, b, code,
                                                         TRUE)
            IN  /\ HasEntry(map, a, code) /\ ~HasEntry(map, b, code)
                    => /\ ~RERR_ErrorMap_IsRegisteredThreadLocal(map, b, code)
                       /\ rb.ret = MapInvalidCodeError
                       /\ rb.map.mappings = map.mappings
                /\ a # b /\ HasEntry(map, a, code) /\ HasEntry(map, b, code)
                    => /\ ra.ret = ErrorOf(map, a, code)
                       /\ rab.ret = ErrorOf(map, b, code)

-----------------------------------------------------------------------------
(* Properties of the lock of the domains *)

\* C32: between the calls on the domain registry its lock is free: every
\* call that took it, RERR_Domain_UnregisterAll on an empty registry
\* included, has given it up when it returns, so that a call of another
\* thread can take it.
C32_LockReleased == domains.lock = 0

-----------------------------------------------------------------------------
(* RERR_Domain_Register, step by step *)

\* A lock that every thread gets at once
CanLock_Always(owner, thread) == TRUE

\* LockMutex(&domainsLock) returns when the mutex is free or the caller's
\* own.
CanLockDomains(owner, thread) == CanLock(owner, thread)

\* The allocations of a call, of which the named one fails
AllocsWhere(fails) ==
    [AllocsOK EXCEPT !.structOK = fails # "struct",
                     !.domainOK = fails # "domain",
                     !.arrayOK = fails # "array",
                     !.itemsOK = fails # "items"]

\* The names the threads register: both are valid and not built in.
NewNames == {NameA, NameB}

\* The call up to LockMutex: the name and the format pass their checks and
\* Domain_Create makes the domain, or fails.
BeginRegister(t) ==
    /\ domCall.thread[t].pc = "idle"
    /\ ~domCall.thread[t].called
    /\ \E name \in NewNames,
          fails \in {"none", "struct", "domain", "array", "items"} :
          LET al == AllocsWhere(fails)
              err == Domain_Check(mem, domains, name, al)
              fmt == CodeFormat_Check(mem, domains, RERR_CodeFormat_I32, al)
              domain == Domain_Create(name, RERR_CodeFormat_I32, al)
          IN  /\ err.ret = NullPtr /\ fmt.ret = NullPtr
              /\ domCall' = [domCall EXCEPT !.thread[t] =
                    [NotRegistering EXCEPT
                        !.called = TRUE, !.name = name, !.fails = fails,
                        !.pc = IF domain.null THEN "idle" ELSE "lock",
                        !.ret = IF domain.null THEN OomPtr ELSE NullPtr]]
    /\ UNCHANGED <<regVars, cfgVars, errVars, arrVars, fmtVars, prbVars, rcVars,
            srVars>>

\* CallOnce and LockMutex
LockDomains(t) ==
    /\ domCall.thread[t].pc = "lock"
    /\ CanLockDomains(domCall.owner, t)
    /\ domCall' = [domCall EXCEPT !.owner = t, !.thread[t].pc = "find"]
    /\ UNCHANGED <<regVars, cfgVars, errVars, arrVars, fmtVars, prbVars, rcVars,
            srVars>>

\* Domain_Find, which takes and gives up the mutex of its own thread once
\* more
FindDomain(t) ==
    /\ domCall.thread[t].pc = "find"
    /\ domCall' = [domCall EXCEPT
          !.thread[t].pc = "insert",
          !.thread[t].found =
              ~Domain_Find(domains, domCall.thread[t].name).null]
    /\ UNCHANGED <<regVars, cfgVars, errVars, arrVars, fmtVars, prbVars, rcVars,
            srVars>>

\* The error for a name that was found, or Domain_Insert
InsertDomain(t) ==
    /\ domCall.thread[t].pc = "insert"
    /\ LET self == domCall.thread[t]
           al == AllocsWhere(self.fails)
           exists == RERR_Error_CreateWithCode(mem, domains,
                         Str(RERR_DOMAIN_RICHERRORS),
                         RERR_ECODE_DOMAIN_ALREADY_EXISTS,
                         Str(MsgAlreadyRegistered \o self.name), al)
           ins == Domain_Insert(domains,
                                Domain(self.name, RERR_CodeFormat_I32), al)
       IN  IF self.found
           THEN /\ mem' = exists.mem
                /\ held' = TakeError(held, exists.ret)
                /\ domains' = domains
                /\ domCall' = [domCall EXCEPT !.thread[t].pc = "unlock",
                                              !.thread[t].ret = exists.ret]
           ELSE /\ domains' = ins.doms
                /\ UNCHANGED <<mem, held>>
                /\ domCall' = [domCall EXCEPT !.thread[t].pc = "unlock",
                                              !.thread[t].ret = ins.ret]
    /\ UNCHANGED <<elast, args, regVars, cfgVars, arrVars, fmtVars, prbVars, rcVars,
            srVars>>

\* UnlockMutex, Domain_Destroy of a domain that was not inserted, return
UnlockDomains(t) ==
    /\ domCall.thread[t].pc = "unlock"
    /\ domCall' = [domCall EXCEPT !.owner = UnlockMutex(@, t),
                                  !.thread[t].pc = "idle"]
    /\ UNCHANGED <<regVars, cfgVars, errVars, arrVars, fmtVars, prbVars, rcVars,
            srVars>>

RegisterInit ==
    /\ RegIdle
    /\ CfgIdle
    /\ ErrIdle
    /\ ArrIdle
    /\ FmtIdle
    /\ PrbIdle
    /\ DcIdle
    /\ RcIdle
    /\ SrIdle

RegisterNext ==
    \/ \E t \in Threads : BeginRegister(t)
    \/ \E t \in Threads : LockDomains(t)
    \/ \E t \in Threads : FindDomain(t)
    \/ \E t \in Threads : InsertDomain(t)
    \/ \E t \in Threads : UnlockDomains(t)

SpecRegister == RegisterInit /\ [][RegisterNext]_vars

-----------------------------------------------------------------------------
(* Properties of concurrent registration of domains *)

\* The threads that have returned from registering the name
Returned(name) ==
    {t \in Threads : /\ domCall.thread[t].called
                     /\ domCall.thread[t].pc = "idle"
                     /\ domCall.thread[t].name = name}

\* Those of them that got RERR_NO_ERROR
Succeeded(name) == {t \in Returned(name) : domCall.thread[t].ret = NullPtr}

\* Those of them none of whose allocations failed
Unfailing(name) ==
    {t \in Returned(name) : domCall.thread[t].fails = "none"}

PlacesOf(name) ==
    {i \in 1..Len(domains.elems) : domains.elems[i].name = name}

\* C33: the search for the name and the insertion are one step under
\* domainsLock: of the threads that register the same new valid name, one
\* gets RERR_NO_ERROR and each other one (no allocation failing) the error
\* RERR_ECODE_DOMAIN_ALREADY_EXISTS; the array holds one domain of that name
\* and stays in strictly ascending order of the names.
C33_RegisterAtomic ==
    /\ \A i, j \in 1..Len(domains.elems) :
          i < j => StrCmp(domains.elems[i].name, domains.elems[j].name) < 0
    /\ \A name \in NewNames :
          /\ Cardinality(Succeeded(name)) <= 1
          /\ Cardinality(PlacesOf(name)) <= 1
          /\ Succeeded(name) # {} => Cardinality(PlacesOf(name)) = 1
          /\ Unfailing(name) # {} =>
                /\ Cardinality(Succeeded(name)) = 1
                /\ Cardinality(PlacesOf(name)) = 1
                /\ \A t \in Unfailing(name) \ Succeeded(name) :
                      IsRichError(mem, domCall.thread[t].ret,
                                  RERR_ECODE_DOMAIN_ALREADY_EXISTS)

\* Two threads were inside RERR_Domain_Register with the same name at the
\* same time and have returned, one with RERR_NO_ERROR and one with the
\* error.
C33_Witness ==
    \E a, b \in Threads :
        /\ a # b
        /\ {a, b} \subseteq Unfailing(NameA)
        /\ domCall.thread[a].ret = NullPtr
        /\ ~domCall.thread[a].found
        /\ domCall.thread[b].found
        /\ IsRichError(mem, domCall.thread[b].ret,
                       RERR_ECODE_DOMAIN_ALREADY_EXISTS)
        /\ Cardinality(PlacesOf(NameA)) = 1

-----------------------------------------------------------------------------
(* RERR_Error_Copy and RERR_Error_Destroy, load by load and store by store *)

\* The value an update of refCount works on is the one it loaded, whatever
\* was stored since: the variant takes the value at the time of the store.
Loaded_AtStore(read, current) == current

\* ++source->refCount and --error->refCount are a load and a store of a
\* plain int field, with no lock and no atomic operation.
Loaded(read, current) == read

\* The one error object the threads share
TheError == NewError(EmptyMem)

Counting(t) == rcCall[t].pc # "idle"

\* RERR_Error_Create by a thread, which then owns the one reference
RcCreate(t) ==
    /\ ~mem.fault
    /\ mem = EmptyMem
    /\ \A u \in Threads : rcCall[u] = NotCounting
    /\ \E r \in {RERR_Error_Create(mem, Str(<<>>), AllocsOK)} :
          /\ r.ret = TheError
          /\ mem' = r.mem
          /\ held' = TakeError(held, r.ret)
    /\ rcCall' = [rcCall EXCEPT ![t].owns = 1]
    /\ UNCHANGED <<domains, elast, args, regVars, cfgVars, arrVars, fmtVars,
                   prbVars, dcVars, srVars>>

\* A thread passes one of its references to another thread, in a way
\* that orders the two threads.
RcHandOver(t, u) ==
    /\ ~mem.fault
    /\ t # u
    /\ ~Counting(t) /\ ~Counting(u)
    /\ rcCall[t].owns > 0
    /\ rcCall' = [rcCall EXCEPT ![t].owns = @ - 1, ![u].owns = @ + 1]
    /\ UNCHANGED <<errVars, regVars, cfgVars, arrVars, fmtVars, prbVars,
                   dcVars, srVars>>

\* The load of refCount by RERR_Error_Copy or RERR_Error_Destroy of a
\* reference the thread owns; the reference passed to Destroy is given up
\* with the call.  A load from an object that was freed is an invalid
\* access.  The threads make MaxCalls calls between them.
RcLoad(t, op) ==
    /\ ~mem.fault
    /\ ~Counting(t)
    /\ rcCall[t].owns > 0
    /\ SumOver([u \in Threads |-> rcCall[u].calls], Threads) < MaxCalls
    /\ IF mem.errors[TheError].state # "live"
       THEN /\ mem' = Fault(mem)
            /\ UNCHANGED <<held, rcCall>>
       ELSE /\ rcCall' = [rcCall EXCEPT
                  ![t].pc = "store", ![t].op = op, ![t].error = TheError,
                  ![t].read = mem.errors[TheError].refCount,
                  ![t].calls = @ + 1,
                  ![t].owns = IF op = "destroy" THEN @ - 1 ELSE @]
            /\ held' = IF op = "destroy" THEN GiveError(held, TheError)
                       ELSE held
            /\ mem' = mem
    /\ UNCHANGED <<domains, elast, args, regVars, cfgVars, arrVars, fmtVars,
                   prbVars, dcVars, srVars>>

\* The store of refCount and the rest of the call: Copy returns the new
\* reference, Destroy frees the object when the value it stored is 0.
RcStore(t) ==
    /\ ~mem.fault
    /\ rcCall[t].pc = "store"
    /\ LET self == rcCall[t]
           p == self.error
           old == Loaded(self.read, mem.errors[p].refCount)
       IN  IF mem.errors[p].state # "live"
           THEN /\ mem' = Fault(mem)
                /\ UNCHANGED <<held, rcCall>>
           ELSE IF self.op = "copy"
           THEN /\ mem' = [mem EXCEPT !.errors[p].refCount = old + 1]
                /\ held' = TakeError(held, p)
                /\ rcCall' = [rcCall EXCEPT ![t].pc = "idle",
                                            ![t].owns = @ + 1]
           ELSE /\ mem' = IF old - 1 = 0
                          THEN [mem EXCEPT !.errors[p] =
                                   [FreshError EXCEPT !.state = "freed"]]
                          ELSE [mem EXCEPT !.errors[p].refCount = old - 1]
                /\ held' = held
                /\ rcCall' = [rcCall EXCEPT ![t].pc = "idle"]
    /\ UNCHANGED <<domains, elast, args, regVars, cfgVars, arrVars, fmtVars,
                   prbVars, dcVars, srVars>>

RefCountInit ==
    /\ RegIdle
    /\ CfgIdle
    /\ ErrIdle
    /\ ArrIdle
    /\ FmtIdle
    /\ PrbIdle
    /\ DcIdle
    /\ RcIdle
    /\ SrIdle

RefCountNext ==
    \/ \E t \in Threads : RcCreate(t)
    \/ \E t, u \in Threads : RcHandOver(t, u)
    \/ \E t \in Threads : RcLoad(t, "copy")
    \/ \E t \in Threads : RcLoad(t, "destroy")
    \/ \E t \in Threads : RcStore(t)

SpecRefCount == RefCountInit /\ [][RefCountNext]_vars

-----------------------------------------------------------------------------
(* Properties of the reference count under concurrent use *)

OwnersOfTheError == held.errors[TheError]

Quiescent == \A t \in Threads : ~Counting(t)

\* The calls of Copy and Destroy so far were all made by one thread
OneCaller ==
    \E t \in Threads : \A u \in Threads \ {t} : rcCall[u].calls = 0

\* A store of thread t writes the value t loaded plus or minus one, or
\* frees the object when that value is 0, whatever refCount holds by then.
StoresWhatItLoaded(t) ==
    (RcStore(t) /\ mem.errors[TheError].state = "live") =>
        LET v == rcCall[t].read + (IF rcCall[t].op = "copy" THEN 1 ELSE -1)
        IN  IF v = 0 THEN mem'.errors[TheError].state = "freed"
            ELSE mem'.errors[TheError].refCount = v

\* C34: Copy and Destroy update refCount by a plain load and store: each
\* store writes the loaded value plus or minus one, so that an update made
\* between the load and the store of another thread is lost; when one
\* thread makes all the calls, refCount is the number of owners.
C34_PlainUpdate ==
    /\ [](OneCaller /\ Quiescent /\ ~mem.fault
             /\ mem.errors[TheError].state = "live"
          => mem.errors[TheError].refCount = OwnersOfTheError)
    /\ [][\A t \in Threads : StoresWhatItLoaded(t)]_vars

\* Two threads have copied the error at the same time and both calls have
\* returned: the error has more owners than refCount says.
C34_Witness ==
    /\ Quiescent
    /\ ~mem.fault
    /\ mem.errors[TheError].state = "live"
    /\ mem.errors[TheError].refCount < OwnersOfTheError
    /\ \A t \in Threads : rcCall[t].op \in {"copy", "none"}
    /\ \E t, u \in Threads : t # u /\ rcCall[t].op = "copy"
                                   /\ rcCall[u].op = "copy"

\* A copy and a destroy have run at the same time with the same outcome.
C34_WitnessDestroy ==
    /\ Quiescent
    /\ ~mem.fault
    /\ mem.errors[TheError].state = "live"
    /\ mem.errors[TheError].refCount < OwnersOfTheError
    /\ \E t, u \in Threads : rcCall[t].op = "copy" /\ rcCall[u].op = "destroy"

-----------------------------------------------------------------------------
(* Properties of the flags of an immutable map *)

\* What a step may not change of a map that is immutable before it and
\* still exists after it
FlagsKept(p) ==
    (/\ mem.infos[p].state = "live"
     /\ mem.infos[p].immutable
     /\ mem'.infos[p].state = "live")
        => /\ mem'.infos[p].immutable
           /\ mem'.infos[p].nullKey = mem.infos[p].nullKey
           /\ mem'.infos[p].nullValue = mem.infos[p].nullValue
           /\ mem'.infos[p].oom = mem.infos[p].oom

\* C35: once a map is immutable, no operation clears the immutable flag or
\* sets the null-key, the null-value or the out-of-memory flag of it; only
\* the attempt-to-mutate-immutable flag may change.
C35_ImmutableFlagsFrozen == [][\A p \in InfoPtrs : FlagsKept(p)]_vars

-----------------------------------------------------------------------------
(* Properties of copies of a map in out-of-memory mode *)

\* The mutable maps the caller holds that have switched to out-of-memory
\* mode and have given up their item array
OutOfMemoryMaps ==
    {p \in InfoPtrs : /\ held.infos[p] > 0
                      /\ mem.infos[p].state = "live"
                      /\ ~mem.infos[p].immutable
                      /\ mem.infos[p].oom}

\* The call returned, without an invalid access, a map that is empty and in
\* out-of-memory mode.
ReturnsOutOfMemoryMap(r) ==
    /\ ~r.mem.fault
    /\ RERR_InfoMap_IsOutOfMemory(r.mem, r.ret)
    /\ RERR_InfoMap_IsEmpty(r.mem, r.ret)

\* C36: copy and immutableCopy of a mutable map in out-of-memory mode
\* return, as mutableCopy does, a map that is empty and in out-of-memory
\* mode, and do not read the item storage the source has released.
C36_CopyOfOutOfMemory ==
    ~mem.fault =>
        \A p \in OutOfMemoryMaps, al \in CopyAllocs :
            /\ ReturnsOutOfMemoryMap(RERR_InfoMap_MutableCopy(mem, p, al))
            /\ ReturnsOutOfMemoryMap(RERR_InfoMap_Copy(mem, p, al))
            /\ ReturnsOutOfMemoryMap(RERR_InfoMap_ImmutableCopy(mem, p, al))

-----------------------------------------------------------------------------
(* Properties of set, get and remove *)

GetTypes == {"String", "Bool", "I64", "U64", "F64"}

\* What the map answers about a key: hasKey, getType and the five gets
Answers(m, p, key) ==
    [has |-> RERR_InfoMap_HasKey(m, p, key),
     type |-> RERR_InfoMap_GetType(m, p, key),
     gets |-> [type \in GetTypes |->
                  GetTyped(m, p, key, type, NoValue(type))]]

\* What a get returns for a value that was set: the bytes of a string,
\* the value of a scalar
Stored(tv) == IF tv[1] = "String" THEN tv[2].chars ELSE tv[2]

\* C37: on a mutable map that is not in out-of-memory mode, a set of type T
\* (no allocation failing) returns and makes hasKey(k) true, getType(k) T
\* and get-T(k) the value set, while the get of every other type fails and
\* no other key changes; a remove makes hasKey(k) false and changes no
\* other key.
C37_SetGetRemove ==
    ~mem.fault =>
        \A p \in HeldMaps, key \in ItemKeys,
           al \in {AllocsOK, [AllocsOK EXCEPT !.shift = "zero"]} :
            (RERR_InfoMap_IsMutable(mem, p)
                /\ ~RERR_InfoMap_IsOutOfMemory(mem, p)) =>
            /\ \A tv \in ItemValues :
                  LET after == SetTyped(mem, p, key, tv[1], tv[2], al)
                  IN  /\ ~after.fault
                      /\ RERR_InfoMap_HasKey(after, p, key)
                      /\ RERR_InfoMap_GetType(after, p, key) = tv[1]
                      /\ \A type \in GetTypes :
                            LET got == GetTyped(after, p, key, type,
                                                NoValue(type))
                            IN  IF type # tv[1] THEN ~got.ok
                                ELSE /\ got.ok
                                     /\ got.value = Stored(tv)
                      /\ \A other \in ItemKeys \ {key} :
                            Answers(after, p, other) = Answers(mem, p, other)
            /\ LET after == RERR_InfoMap_Remove(mem, p, key, al)
               IN  /\ ~after.fault
                   /\ ~RERR_InfoMap_HasKey(after, p, key)
                   /\ \A other \in ItemKeys \ {key} :
                         Answers(after, p, other) = Answers(mem, p, other)

-----------------------------------------------------------------------------
(* Properties of the capacity of arrays *)

\* The storage of two arrays is the same block of the same capacity.
SameStorage(a, b) ==
    /\ a.state = b.state
    /\ a.storage = b.storage
    /\ a.capacity = b.capacity
    /\ a.allocs = b.allocs

\* An insert at the end followed by the erase of the element, twice
Alternate(a) ==
    LET a1 == RERR_DynArray_Insert(a, Len(a.elems), 0, TRUE).a
        a2 == RERR_DynArray_Erase(a1, Len(a1.elems) - 1, TRUE)
        a3 == RERR_DynArray_Insert(a2, Len(a2.elems), 0, TRUE).a
        a4 == RERR_DynArray_Erase(a3, Len(a3.elems) - 1, TRUE)
    IN  <<a1, a2, a3, a4>>

\* C38: an array never holds more elements than its capacity; erase and
\* clear lower the capacity only when it exceeds the ideal capacity of the
\* size plus the hysteresis, which is the threshold of the fixed zone; the
\* erase that follows an insert does not change the storage, and neither
\* does a further insert and erase.
C38_NoThrashing ==
    /\ [](array.state # "none" =>
             /\ array.state = "live"
             /\ Len(array.elems) <= array.capacity
             /\ array.arr.capHysteresis = array.arr.fixedThresh
             /\ LET alt == Alternate(array)
                IN  /\ alt[1].state = "live"
                    /\ Len(alt[1].elems) = Len(array.elems) + 1
                    /\ SameStorage(alt[2], alt[1])
                    /\ SameStorage(alt[3], alt[1])
                    /\ SameStorage(alt[4], alt[1]))
    /\ [][(array.state = "live" /\ array'.capacity < array.capacity) =>
             /\ array'.state = "live"
             /\ array.capacity >
                   IdealCapacity(array.arr, Len(array'.elems)
                                            + array.arr.fixedThresh)
             /\ array'.capacity >= Len(array'.elems)]_vars

-----------------------------------------------------------------------------
(* Searches in a sorted array of int (DynArray.c, DynArray.h) *)

\* The elements and the keys are the numbers from 0 to this one.
MaxValue == 6

Values == 0..MaxValue

\* CompareInt of the tests
CompareInt(elem, key) == elem - key

\* A binary search that returns `left` where BSearch returns `right`
RECURSIVE BSearch_StopsLeft(_, _, _, _, _, _)
BSearch_StopsLeft(arr, key, left, right, exact, rounds) ==
    IF left = right
    THEN [ret |-> IF exact THEN NullPos ELSE left, rounds |-> rounds]
    ELSE LET count == right - left
             middle == left + count \div 2
             cmp == CompareInt(arr[middle + 1], key)
         IN  IF cmp = 0 THEN [ret |-> middle, rounds |-> rounds]
             ELSE IF cmp > 0
             THEN BSearch_StopsLeft(arr, key, left, middle, exact, rounds + 1)
             ELSE IF left = middle
             THEN [ret |-> IF exact THEN NullPos ELSE left, rounds |-> rounds]
             ELSE BSearch_StopsLeft(arr, key, middle, right, exact,
                                    rounds + 1)

\* The loop of BSearch from the bounds left and right on: what it returns
\* (a position counted from Begin, NullPos for NULL) and how many times it
\* has gone round.
RECURSIVE BSearch(_, _, _, _, _, _)
BSearch(arr, key, left, right, exact, rounds) ==
    IF left = right
    THEN [ret |-> IF exact THEN NullPos ELSE left, rounds |-> rounds]
    ELSE LET count == right - left
             middle == left + count \div 2
             cmp == CompareInt(arr[middle + 1], key)
         IN  IF cmp = 0 THEN [ret |-> middle, rounds |-> rounds]
             ELSE IF cmp > 0
             THEN BSearch(arr, key, left, middle, exact, rounds + 1)
             ELSE IF left = middle
             THEN [ret |-> IF exact THEN NullPos ELSE right, rounds |-> rounds]
             ELSE BSearch(arr, key, middle, right, exact, rounds + 1)

\* The loop of LinSearch from the position it on
RECURSIVE LinSearch(_, _, _, _)
LinSearch(arr, key, it, exact) ==
    IF it = Len(arr) THEN (IF exact THEN NullPos ELSE Len(arr))
    ELSE LET cmp == CompareInt(arr[it + 1], key)
         IN  IF cmp = 0 THEN it
             ELSE IF ~exact /\ cmp < 0 THEN it
             ELSE LinSearch(arr, key, it + 1, exact)

RERR_DynArray_BSearchInsertionPoint(arr, key) ==
    BSearch(arr, key, 0, Len(arr), FALSE, 0)

RERR_DynArray_BSearchExact(arr, key) ==
    BSearch(arr, key, 0, Len(arr), TRUE, 0)

RERR_DynArray_FindFirst(arr, key) == LinSearch(arr, key, 0, TRUE)

\* The same numbers as an array of struct MappedError of one thread, for
\* the searches of DynArray.h
AsMapped(value) == [thread |-> 1, code |-> value]

MappedArray(arr) == [i \in 1..Len(arr) |-> AsMapped(arr[i])]

\* A number that the array does not hold is put where
\* BSearchInsertionPoint says, which keeps the array sorted.
SearchInsert ==
    /\ \E value \in Values :
          LET it == RERR_DynArray_BSearchInsertionPoint(search.elems,
                                                        value).ret
          IN  /\ RERR_DynArray_BSearchExact(search.elems, value).ret = NullPos
              /\ search' = [NoSearch EXCEPT
                    !.elems = SubSeq(search.elems, 1, it) \o <<value>>
                              \o SubSeq(search.elems, it + 1,
                                        Len(search.elems))]
    /\ UNCHANGED <<regVars, cfgVars, errVars, arrVars, fmtVars, prbVars,
                   dcVars, rcVars>>

SearchExact ==
    /\ \E key \in Values :
          search' = [search EXCEPT
                        !.op = "BSearch", !.key = key,
                        !.ret = RERR_DynArray_BSearchExact(search.elems,
                                                           key).ret]
    /\ UNCHANGED <<regVars, cfgVars, errVars, arrVars, fmtVars, prbVars,
                   dcVars, rcVars>>

SearchInsertionPoint ==
    /\ \E key \in Values :
          search' = [search EXCEPT
                        !.op = "BSearchInsertionPoint", !.key = key,
                        !.ret = RERR_DynArray_BSearchInsertionPoint(
                                    search.elems, key).ret]
    /\ UNCHANGED <<regVars, cfgVars, errVars, arrVars, fmtVars, prbVars,
                   dcVars, rcVars>>

SearchFindFirst ==
    /\ \E key \in Values :
          search' = [search EXCEPT
                        !.op = "FindFirst", !.key = key,
                        !.ret = RERR_DynArray_FindFirst(search.elems, key)]
    /\ UNCHANGED <<regVars, cfgVars, errVars, arrVars, fmtVars, prbVars,
                   dcVars, rcVars>>

SearchInit ==
    /\ RegIdle
    /\ CfgIdle
    /\ ErrIdle
    /\ ArrIdle
    /\ FmtIdle
    /\ PrbIdle
    /\ DcIdle
    /\ RcIdle
    /\ SrIdle

SearchNext ==
    \/ SearchInsert
    \/ SearchExact
    \/ SearchInsertionPoint
    \/ SearchFindFirst

SpecSearch == SearchInit /\ [][SearchNext]_vars

-----------------------------------------------------------------------------
(* Properties of the searches *)

\* Strictly ascending: sorted, and no number twice
Ascending(arr) == \A i, j \in 1..Len(arr) : i < j => arr[i] < arr[j]

\* The position of the number in the array, NullPos when it is not there
PlaceOf(arr, key) ==
    IF \E i \in 1..Len(arr) : arr[i] = key
    THEN (CHOOSE i \in 1..Len(arr) : arr[i] = key) - 1
    ELSE NullPos

\* The position of the first element that is not less than the key, the
\* end when there is none
LowerBound(arr, key) == Cardinality({i \in 1..Len(arr) : arr[i] < key})

\* C39: in an array in strictly ascending order the exact binary search
\* returns the element equal to the key, or null when there is none; the
\* search for the insertion point returns the first element that is not
\* less than the key, or the end; both return after at most size + 1
\* rounds of their loop, on the empty array too; and the linear search
\* returns what the exact binary search returns.
C39_SearchesAgree ==
    /\ Ascending(search.elems)
    /\ \A key \in Values :
          LET arr == search.elems
              exact == RERR_DynArray_BSearchExact(arr, key)
              point == RERR_DynArray_BSearchInsertionPoint(arr, key)
          IN  /\ exact.ret = PlaceOf(arr, key)
              /\ point.ret = LowerBound(arr, key)
              /\ exact.rounds <= Len(arr) + 1
              /\ point.rounds <= Len(arr) + 1
              /\ RERR_DynArray_FindFirst(arr, key) = exact.ret
              /\ DynArray_BSearchExact(MappedArray(arr), AsMapped(key))
                    = exact.ret
              /\ DynArray_BSearchInsertionPoint(MappedArray(arr),
                                                AsMapped(key)) = point.ret
    /\ search.op = "BSearch" => search.ret = PlaceOf(search.elems, search.key)
    /\ search.op = "BSearchInsertionPoint"
          => search.ret = LowerBound(search.elems, search.key)
    /\ search.op = "FindFirst"
          => search.ret = PlaceOf(search.elems, search.key)

\* The insertion point of a key that is not in the array has been searched
\* in an array that holds smaller and larger numbers.
C39_Witness ==
    /\ search.op = "BSearchInsertionPoint"
    /\ Len(search.elems) >= 4
    /\ PlaceOf(search.elems, search.key) = NullPos
    /\ search.ret \in 2..(Len(search.elems) - 1)
    /\ search.elems[search.ret] < search.key
    /\ search.elems[search.ret + 1] > search.key

-----------------------------------------------------------------------------
(* Properties of the parameters of the capacity *)

\* The element sizes of the arrays of the library and of the tests
ElemSizes == {1, ElemSize, PointerSize, ItemSize}

\* The exponent is one that size_t has, and 2^linThreshBits is above the
\* threshold of the fixed zone.
Usable(arr) ==
    /\ arr.linThreshBits < SizeBits
    /\ \E k \in 0..30 : k <= arr.linThreshBits /\ 2 ^ k > arr.fixedThresh

\* C40: for every element size that RERR_DynArray_Create accepts,
\* linThreshBits is less than the width of size_t and 2^linThreshBits is
\* greater than fixedThresh.
C40_ParametersUsable ==
    /\ \A elemSize \in ElemSizes : Usable(RERR_DynArray_Create(elemSize))
    /\ array.state # "none" => Usable(array.arr)

====
